---- MODULE Spec2Model ----
(***************************************************************************)
(* The workisready backend: provider registration and editing, the         *)
(* update-request queue (submit, approve, reject), provider reviews, the   *)
(* task routes (create, edit, delete, status), the region and category     *)
(* listings, and the User collection, as implemented by the Express        *)
(* handlers over Mongoose documents.                                       *)
(*                                                                         *)
(* A handler that has no await between its read and its write is one       *)
(* action.  POST /:id/review, PUT /tasks/:id/status and POST /providers    *)
(* are split between their find and their save, the point where another    *)
(* request for the same document can run.                                  *)
(***************************************************************************)
EXTENDS Integers, Sequences, FiniteSets, TLC

(***************************************************************************)
(* Bounds of the model.                                                    *)
(***************************************************************************)
MaxProviders == 1
MaxRequests == 1
MaxFiles == 13
MaxClock == 2
MaxReviewers == 2
MaxTasks == 1
MaxImages == 2
MaxStatusCalls == 2
MaxRegistrations == 2
MaxRegistered == 2
MaxAccounts == 2
MaxListCalls == 1

(***************************************************************************)
(* Program constants.                                                      *)
(***************************************************************************)
MaxSampleWork == 10
MaxCategories == 5
MaxSkills == 15
MinBioLength == 50
MaxBioLength == 1000
MaxUploadCount == 10

VARIABLES
    providers,      \* Provider collection: _id -> document
    nextProviderId, \* next Provider _id
    requests,       \* ProviderUpdateRequest collection: _id -> document
    nextFile,       \* next upload file name (multer names are unique)
    clock,          \* value of the next new Date(); every evaluation advances it
    reqUserSet,     \* whether adminAuth sets req.user (besides req.admin)
    inflight,       \* review requests between findById and save
    tasks,          \* Task collection: _id -> document
    nextTaskId,     \* next Task _id
    disk,           \* files in uploads/tasks
    statusCalls,    \* status requests between findById and save
    registrations,  \* provider registrations between findOne and save
    users,          \* User collection: _id -> document
    nextUserId,     \* next User _id
    listCalls,      \* GET /tasks requests between the page query and the count
    unlinked,       \* provider upload files the application has deleted
    resp            \* the last HTTP response

vars == <<providers, nextProviderId, requests, nextFile, clock, reqUserSet,
          inflight, tasks, nextTaskId, disk, statusCalls, registrations,
          users, nextUserId, listCalls, unlinked, resp>>

\* the state of the provider routes and the state of the task routes
providerVars == <<providers, nextProviderId, requests, reqUserSet, inflight>>
taskVars == <<tasks, nextTaskId, disk, statusCalls>>
accountVars == <<registrations, users, nextUserId>>

Users == {"ama", "kofi"}
\* the users who ask to become providers
Registrants == {"ama"}
AdminId == "admin"
Reviewers == 1..MaxReviewers
StatusCallers == 1..MaxStatusCalls
RegistrationCallers == 1..MaxRegistrations
ListCallers == 1..MaxListCalls

(***************************************************************************)
(* Helpers.                                                                *)
(***************************************************************************)
Min(a, b) == IF a < b THEN a ELSE b

\* Array.prototype.slice(0, n)
SliceHead(s, n) == SubSeq(s, 1, Min(Len(s), n))

\* names of k freshly uploaded files, in upload order; multer names are
\* unique, so the counter advances only when the names are stored
NewFiles(first, k) == [i \in 1..k |-> first + i - 1]

\* number of occurrences of x in s
Count(s, x) == Cardinality({i \in DOMAIN s : s[i] = x})

NoDoc == [missing |-> TRUE]

\* the elements of a sequence
Range(seq) == {seq[i] : i \in DOMAIN seq}

(***************************************************************************)
(* Multipart form fields.  A field that carries a list arrives as a        *)
(* string: either JSON text of an array or some other text.                *)
(***************************************************************************)
JsonField(list) == [kind |-> "json", list |-> list, text |-> ""]
TextField(s) == [kind |-> "text", list |-> <<>>, text |-> s]

\* JavaScript truthiness of a form string: only "" is falsy
TruthyField(f) == f.kind = "json" \/ f.text # ""
TruthyString(s) == s # ""

\* req.body.<name> is set and truthy
HasList(body, name) == name \in DOMAIN body /\ TruthyField(body[name])
HasString(body, name) == name \in DOMAIN body /\ TruthyString(body[name])

\* try { JSON.parse(v) } catch { Array.isArray(v) ? v : [v] }
ParseOrWrap(f) == IF f.kind = "json" THEN f.list ELSE <<f.text>>

BioA == "Licensed plumber with ten years of experience in Accra."
BioB == "Certified electrician and painter serving Kumasi homes."
BioShort == "Plumber."

(***************************************************************************)
(* Provider schema validation (run by save()).                             *)
(***************************************************************************)
ExperienceEnum == {"", "less-1", "1-3", "3-5", "5-10", "10+"}
AvailabilityEnum == {"flexible", "weekdays", "weekends", "evenings"}

ValidCategory(v) == Len(v) > 0 /\ Len(v) <= MaxCategories

ValidSampleWorkMutant(v) == TRUE
ValidSampleWork(v) == Len(v) <= MaxSampleWork

ValidBio(b) == Len(b) >= MinBioLength /\ Len(b) <= MaxBioLength

ValidProvider(p) ==
    /\ ValidCategory(p.category)
    /\ Len(p.skills) <= MaxSkills
    /\ ValidBio(p.bio)
    /\ p.experience \in ExperienceEnum
    /\ p.availability \in AvailabilityEnum
    /\ ValidSampleWork(p.sampleWork)
    /\ p.region # ""
    /\ \A i \in DOMAIN p.reviews : p.reviews[i].rating \in 1..5

\* the Provider the given user owns: Provider.findOne({ userId })
ProviderOfMutant(u) == DOMAIN providers
ProviderOf(u) == {id \in DOMAIN providers : providers[id].userId = u}

NoResp == [op |-> "none", status |-> 0]

Init ==
    /\ providers = <<>>
    /\ nextProviderId = 1
    /\ requests = <<>>
    /\ nextFile = 1
    /\ clock = 1
    /\ reqUserSet \in BOOLEAN
    /\ inflight = [c \in Reviewers |-> NoDoc]
    /\ tasks = <<>>
    /\ nextTaskId = 1
    /\ disk = {}
    /\ statusCalls = [c \in StatusCallers |-> NoDoc]
    /\ registrations = [c \in RegistrationCallers |-> NoDoc]
    /\ users = <<>>
    /\ nextUserId = 1
    /\ listCalls = [c \in ListCallers |-> NoDoc]
    /\ unlinked = {}
    /\ resp = NoResp

(***************************************************************************)
(* POST /providers  (register)                                             *)
(***************************************************************************)
RegBodies ==
    { [fname |-> "Ama", sname |-> "Mensah", bio |-> BioA, region |-> "Ashanti",
       category |-> JsonField(<<"Plumbing">>)],
      [fname |-> "Esi", sname |-> "Owusu", bio |-> BioShort, region |-> "Ashanti",
       category |-> JsonField(<<"Cleaning">>)],
      [fname |-> "", sname |-> "Owusu", bio |-> BioA, region |-> "Ashanti",
       category |-> JsonField(<<"Cleaning">>)],
      [fname |-> "Yaw", sname |-> "Addo", bio |-> BioA, region |-> "Ashanti",
       category |-> TextField("Cleaning")] }

NewProvider(u, body, files) ==
    [userId |-> u,
     category |-> IF HasList(body, "category") THEN body.category.list ELSE <<>>,
     bio |-> body.bio,
     skills |-> IF HasList(body, "skills") THEN body.skills.list ELSE <<>>,
     experience |-> IF HasString(body, "experience") THEN body.experience ELSE "",
     hourlyRate |-> IF HasString(body, "hourlyRate") THEN body.hourlyRate ELSE "",
     availability |-> IF HasString(body, "availability")
                      THEN body.availability ELSE "flexible",
     region |-> IF HasString(body, "region") THEN body.region ELSE "",
     sampleWork |-> files,
     reviews |-> <<>>,
     averageRating |-> 0,
     isApproved |-> FALSE]

\* JSON.parse of a truthy field that is not JSON throws
RegisterParseThrows(body) ==
    \/ HasList(body, "category") /\ body.category.kind # "json"
    \/ HasList(body, "skills") /\ body.skills.kind # "json"

Register(u, body, k) ==
    /\ nextFile + k - 1 <= MaxFiles
    /\ LET doc == NewProvider(u, body, NewFiles(nextFile, k))
       IN  IF ProviderOf(u) # {} THEN
               /\ resp' = [op |-> "register", status |-> 400]
               /\ UNCHANGED <<providers, nextProviderId, nextFile>>
           ELSE IF body.fname = "" \/ body.sname = "" THEN
               /\ resp' = [op |-> "register", status |-> 400]
               /\ UNCHANGED <<providers, nextProviderId, nextFile>>
           ELSE IF RegisterParseThrows(body) \/ ~ValidProvider(doc) THEN
               /\ resp' = [op |-> "register", status |-> 500]
               /\ UNCHANGED <<providers, nextProviderId, nextFile>>
           ELSE
               /\ nextProviderId <= MaxProviders
               /\ providers' = (nextProviderId :> doc) @@ providers
               /\ nextProviderId' = nextProviderId + 1
               /\ nextFile' = nextFile + k
               /\ resp' = [op |-> "register", status |-> 201]
    /\ UNCHANGED <<requests, clock, reqUserSet, inflight>>
    /\ UNCHANGED <<taskVars, accountVars, listCalls, unlinked>>

(***************************************************************************)
(* POST /providers/update-request  (submit)                                *)
(***************************************************************************)
SubmitBodies ==
    { [phone |-> "0240000000"],
      [bio |-> ""],
      [bio |-> BioB],
      [category |-> JsonField(<<"Carpentry", "Roofing">>), bio |-> BioB,
       skills |-> TextField("roofing"), experience |-> "3-5",
       hourlyRate |-> "70", availability |-> "weekends"] }

ListFields == {"category", "skills"}
StringFields == {"bio", "experience", "hourlyRate", "availability"}

\* the changes object the handler builds from req.body
BuildChanges(body) ==
    [f \in {g \in ListFields : HasList(body, g)}
           \cup {g \in StringFields : HasString(body, g)} |->
        IF f \in ListFields THEN ParseOrWrap(body[f]) ELSE body[f]]

\* Object.keys(changes).length === 0 && sampleWorkPaths.length === 0
NoChangesMutant(changes, files) == DOMAIN changes = {}
NoChanges(changes, files) == DOMAIN changes = {} /\ Len(files) = 0

\* new ProviderUpdateRequest({...}): array paths of the schema that were
\* not given are created as empty arrays
NewRequest(pid, u, changes, files) ==
    [providerId |-> pid,
     userId |-> u,
     changes |-> changes @@ [f \in ListFields |-> <<>>],
     newSampleFiles |-> files,
     status |-> "pending"]

Submit(u, body, k) ==
    /\ nextFile + k - 1 <= MaxFiles
    /\ LET changes == BuildChanges(body)
           files == NewFiles(nextFile, k)
       IN  IF ProviderOf(u) = {} THEN
               /\ resp' = [op |-> "submit", status |-> 404, uid |-> u,
                           body |-> body, files |-> k]
               /\ UNCHANGED <<requests, nextFile>>
           ELSE IF NoChanges(changes, files) THEN
               /\ resp' = [op |-> "submit", status |-> 400, uid |-> u,
                           body |-> body, files |-> k]
               /\ UNCHANGED <<requests, nextFile>>
           ELSE
               /\ Len(requests) < MaxRequests
               /\ nextFile' = nextFile + k
               /\ requests' = Append(requests,
                      NewRequest(CHOOSE id \in ProviderOf(u) : TRUE,
                                 u, changes, files))
               /\ resp' = [op |-> "submit", status |-> 200, uid |-> u,
                           body |-> body, files |-> k]
    /\ UNCHANGED <<providers, nextProviderId, clock, reqUserSet, inflight>>
    /\ UNCHANGED <<taskVars, accountVars, listCalls, unlinked>>

(***************************************************************************)
(* POST /admin/providers/update-requests/:requestId/approve                *)
(***************************************************************************)
\* [...provider.sampleWork, ...request.newSampleFiles].slice(0, 10)
AppendSamples(existing, new) == SliceHead(existing \o new, MaxSampleWork)

SetIf(doc, cond, field, value) ==
    IF cond THEN [doc EXCEPT ![field] = value] ELSE doc

ApplyChangesMutant(p, c) ==
    LET has(f) == f \in DOMAIN c
        p1 == SetIf(p, has("category"), "category", c["category"])
        p2 == SetIf(p1, has("bio") /\ TruthyString(c["bio"]), "bio", c["bio"])
        p3 == SetIf(p2, has("skills"), "skills", c["skills"])
        p4 == SetIf(p3, has("experience") /\ TruthyString(c["experience"]),
                    "experience", c["experience"])
    IN  SetIf(p4, has("availability") /\ TruthyString(c["availability"]),
              "availability", c["availability"])

\* if (changes.x) provider.x = changes.x, for the six fields; an array is
\* truthy even when empty, a string only when not empty
ApplyChanges(p, c) ==
    LET has(f) == f \in DOMAIN c
        p1 == SetIf(p, has("category"), "category", c["category"])
        p2 == SetIf(p1, has("bio") /\ TruthyString(c["bio"]), "bio", c["bio"])
        p3 == SetIf(p2, has("skills"), "skills", c["skills"])
        p4 == SetIf(p3, has("experience") /\ TruthyString(c["experience"]),
                    "experience", c["experience"])
        p5 == SetIf(p4, has("hourlyRate") /\ TruthyString(c["hourlyRate"]),
                    "hourlyRate", c["hourlyRate"])
    IN  SetIf(p5, has("availability") /\ TruthyString(c["availability"]),
              "availability", c["availability"])

\* the provider document as the handler is about to save it
ApprovedProvider(p, r) ==
    LET q == ApplyChanges(p, r.changes)
    IN  IF Len(r.newSampleFiles) > 0
        THEN [q EXCEPT !.sampleWork = AppendSamples(q.sampleWork, r.newSampleFiles)]
        ELSE q

\* req.user under adminAuth
AdminReqUser == IF reqUserSet THEN [id |-> AdminId] ELSE NoDoc

\* the statement at which the approve handler leaves its try block
ApproveStop(doc, dbFail) ==
    IF ~ValidProvider(doc) \/ dbFail = "provider" THEN "providerSave"
    ELSE IF AdminReqUser = NoDoc THEN "reqUser"
    ELSE IF dbFail = "request" THEN "requestSave"
    ELSE "done"

\* provider.save() has completed once the handler is past it
ProviderWritten(stop) == stop # "providerSave"

\* request.save() is the last statement that can throw
RequestWrittenMutant(stop) == stop \in {"done", "requestSave"}
RequestWritten(stop) == stop = "done"

MarkApproved(r, now, by) ==
    [status |-> "approved", processedAt |-> now, processedBy |-> by] @@ r

DbFailures == {"none", "provider", "request"}
RejectFailures == {"none", "request"}

Approve(rid, dbFail) ==
    /\ clock <= MaxClock
    /\ IF rid \notin DOMAIN requests THEN
           /\ resp' = [op |-> "approve", status |-> 404, rid |-> rid]
           /\ UNCHANGED <<providers, requests, clock>>
       ELSE IF requests[rid].providerId \notin DOMAIN providers THEN
           /\ resp' = [op |-> "approve", status |-> 404, rid |-> rid]
           /\ UNCHANGED <<providers, requests, clock>>
       ELSE
           LET r == requests[rid]
               p == providers[r.providerId]
               doc == ApprovedProvider(p, r)
               stop == ApproveStop(doc, dbFail)
           IN  /\ providers' = IF ProviderWritten(stop)
                               THEN [providers EXCEPT ![r.providerId] = doc]
                               ELSE providers
               /\ requests' = IF RequestWritten(stop)
                              THEN [requests EXCEPT
                                      ![rid] = MarkApproved(r, clock, AdminReqUser.id)]
                              ELSE requests
               /\ clock' = IF ProviderWritten(stop) THEN clock + 1 ELSE clock
               /\ resp' = [op |-> "approve",
                           status |-> IF stop = "done" THEN 200 ELSE 500,
                           rid |-> rid, stop |-> stop]
    /\ UNCHANGED <<nextProviderId, nextFile, reqUserSet, inflight>>
    /\ UNCHANGED <<taskVars, accountVars, listCalls, unlinked>>

(***************************************************************************)
(* POST /admin/providers/update-requests/:requestId/reject                 *)
(***************************************************************************)
Reasons == {"", "Bio is misleading"}
DefaultReason == "No reason provided"

MarkRejectedMutant(r, reason, now, by) ==
    [status |-> "rejected", rejectionReason |-> reason,
     processedAt |-> now, processedBy |-> by] @@ r

MarkRejected(r, reason, now, by) ==
    [status |-> "rejected",
     rejectionReason |-> IF TruthyString(reason) THEN reason ELSE DefaultReason,
     processedAt |-> now, processedBy |-> by] @@ r

Reject(rid, reason, dbFail) ==
    /\ clock <= MaxClock
    /\ IF rid \notin DOMAIN requests THEN
           /\ resp' = [op |-> "reject", status |-> 404, rid |-> rid]
           /\ UNCHANGED <<requests, clock>>
       ELSE
           LET r == requests[rid]
               ok == AdminReqUser # NoDoc /\ dbFail # "request"
           IN  /\ requests' = IF ok
                              THEN [requests EXCEPT
                                      ![rid] = MarkRejected(r, reason, clock,
                                                          AdminReqUser.id)]
                              ELSE requests
               /\ clock' = clock + 1
               /\ resp' = [op |-> "reject",
                           status |-> IF ok THEN 200 ELSE 500,
                           rid |-> rid, reason |-> reason]
    /\ UNCHANGED <<providers, nextProviderId, nextFile, reqUserSet, inflight>>
    /\ UNCHANGED <<taskVars, accountVars, listCalls, unlinked>>

(***************************************************************************)
(* PUT /providers/update  (the provider edits the own profile)             *)
(***************************************************************************)
UpdateBodies ==
    { [phone |-> "0240000000"],
      [bio |-> ""],
      [hourlyRate |-> "55"],
      [category |-> TextField("Masonry")] }

\* JSON.parse(updates.x) of a truthy field that is not JSON throws
UpdateParseThrows(body) ==
    \/ HasList(body, "category") /\ body.category.kind # "json"
    \/ HasList(body, "skills") /\ body.skills.kind # "json"

\* if (updates[field] !== undefined) provider[field] = updates[field]
CopyDefined(p, body) ==
    LET p1 == SetIf(p, "bio" \in DOMAIN body, "bio", body["bio"])
        p2 == SetIf(p1, "experience" \in DOMAIN body, "experience", body["experience"])
        p3 == SetIf(p2, "hourlyRate" \in DOMAIN body, "hourlyRate", body["hourlyRate"])
    IN  SetIf(p3, "availability" \in DOMAIN body, "availability", body["availability"])

\* if (updates.category) provider.category = <parsed>; same for skills
CopyLists(p, body) ==
    LET p1 == SetIf(p, HasList(body, "category"), "category",
                    ParseOrWrap(body["category"]))
    IN  SetIf(p1, HasList(body, "skills"), "skills", ParseOrWrap(body["skills"]))

SelfUpdatedProvider(p, body, files) ==
    LET p1 == CopyDefined(p, body)
        p2 == IF Len(files) > 0
              THEN [p1 EXCEPT !.sampleWork = SliceHead(p1.sampleWork \o files,
                                                       MaxSampleWork)]
              ELSE p1
    IN  CopyLists(p2, body)

UpdateSelf(u, body, k) ==
    /\ nextFile + k - 1 <= MaxFiles
    /\ IF ProviderOf(u) = {} THEN
           /\ resp' = [op |-> "update", status |-> 404]
           /\ UNCHANGED <<providers, nextFile>>
       ELSE
           LET pid == CHOOSE id \in ProviderOf(u) : TRUE
               doc == SelfUpdatedProvider(providers[pid], body,
                                          NewFiles(nextFile, k))
               ok == ~UpdateParseThrows(body) /\ ValidProvider(doc)
           IN  /\ providers' = IF ok THEN [providers EXCEPT ![pid] = doc]
                               ELSE providers
               /\ nextFile' = IF ok THEN nextFile + k ELSE nextFile
               /\ resp' = [op |-> "update", status |-> IF ok THEN 200 ELSE 500]
    /\ UNCHANGED <<nextProviderId, requests, clock, reqUserSet, inflight>>
    /\ UNCHANGED <<taskVars, accountVars, listCalls, unlinked>>

(***************************************************************************)
(* updateProvider  (provider controller)                                   *)
(***************************************************************************)
ControllerUpdatedProvider(p, body, files) ==
    LET p1 == [p EXCEPT !.sampleWork = p.sampleWork \o files]
        p2 == SetIf(p1, "bio" \in DOMAIN body, "bio", body["bio"])
        p3 == SetIf(p2, HasList(body, "category"), "category", body["category"].list)
    IN  SetIf(p3, HasList(body, "skills"), "skills", body["skills"].list)

UpdateProvider(u, body, k) ==
    /\ nextFile + k - 1 <= MaxFiles
    /\ IF ProviderOf(u) = {} THEN
           /\ resp' = [op |-> "updateProvider", status |-> 404]
           /\ UNCHANGED <<providers, nextFile>>
       ELSE
           LET pid == CHOOSE id \in ProviderOf(u) : TRUE
               doc == ControllerUpdatedProvider(providers[pid], body,
                                                NewFiles(nextFile, k))
               ok == ~UpdateParseThrows(body) /\ ValidProvider(doc)
           IN  /\ providers' = IF ok THEN [providers EXCEPT ![pid] = doc]
                               ELSE providers
               /\ nextFile' = IF ok THEN nextFile + k ELSE nextFile
               /\ resp' = [op |-> "updateProvider",
                           status |-> IF ok THEN 200 ELSE 500]
    /\ UNCHANGED <<nextProviderId, requests, clock, reqUserSet, inflight>>
    /\ UNCHANGED <<taskVars, accountVars, listCalls, unlinked>>

(***************************************************************************)
(* PUT /admin/providers/:id                                                *)
(***************************************************************************)
\* provider.sampleWork.filter(sample => name(sample) !== name(removed)),
\* for each removed path
RemoveSamples(samples, removed) ==
    SelectSeq(samples, LAMBDA f : f \notin removed)

AdminUpdatedProvider(p, body, removed, files) ==
    LET p1 == CopyDefined(p, body)
        p2 == CopyLists(p1, body)
        p3 == [p2 EXCEPT !.sampleWork = RemoveSamples(p2.sampleWork, removed)]
    IN  IF Len(files) > 0
        THEN [p3 EXCEPT !.sampleWork = SliceHead(p3.sampleWork \o files,
                                                 MaxSampleWork)]
        ELSE p3

\* removedSamples names no sample or the first sample of the gallery
RemovedChoices(p) ==
    IF Len(p.sampleWork) > 0 THEN {{}, {p.sampleWork[1]}} ELSE {{}}

AdminUpdate(pid, body, k) ==
    /\ nextFile + k - 1 <= MaxFiles
    /\ IF pid \notin DOMAIN providers THEN
           /\ resp' = [op |-> "adminUpdate", status |-> 404]
           /\ UNCHANGED <<providers, nextFile, unlinked>>
       ELSE
           \E removed \in RemovedChoices(providers[pid]) :
               LET doc == AdminUpdatedProvider(providers[pid], body, removed,
                                               NewFiles(nextFile, k))
                   ok == ValidProvider(doc)
               IN  /\ unlinked' = unlinked \cup removed
                   /\ providers' = IF ok THEN [providers EXCEPT ![pid] = doc]
                                   ELSE providers
                   /\ nextFile' = IF ok THEN nextFile + k ELSE nextFile
                   /\ resp' = [op |-> "adminUpdate",
                               status |-> IF ok THEN 200 ELSE 500]
    /\ UNCHANGED <<nextProviderId, requests, clock, reqUserSet, inflight>>
    /\ UNCHANGED <<taskVars, accountVars, listCalls>>

(***************************************************************************)
(* DELETE /providers/sample/:index                                         *)
(***************************************************************************)
\* provider.sampleWork.splice(index, 1), index counted from 0
Splice(s, index) == SubSeq(s, 1, index) \o SubSeq(s, index + 2, Len(s))

\* what can go wrong in the handler: fs.unlinkSync throws, provider.save()
\* rejects
SampleFailures == {"none", "unlink", "save"}

DeleteSample(u, index, fail) ==
    /\ IF ProviderOf(u) = {} THEN
           /\ resp' = [op |-> "deleteSample", status |-> 404]
           /\ UNCHANGED <<providers, unlinked>>
       ELSE
           LET pid == CHOOSE id \in ProviderOf(u) : TRUE
               p == providers[pid]
           IN  IF index < 0 \/ index >= Len(p.sampleWork) THEN
                   /\ resp' = [op |-> "deleteSample", status |-> 400]
                   /\ UNCHANGED <<providers, unlinked>>
               ELSE IF fail = "unlink" /\ p.sampleWork[index + 1] \notin unlinked THEN
                   /\ resp' = [op |-> "deleteSample", status |-> 500,
                               failed |-> "unlink"]
                   /\ UNCHANGED <<providers, unlinked>>
               ELSE IF fail = "save" THEN
                   /\ unlinked' = unlinked \cup {p.sampleWork[index + 1]}
                   /\ resp' = [op |-> "deleteSample", status |-> 500,
                               failed |-> "save"]
                   /\ UNCHANGED providers
               ELSE
                   /\ unlinked' = unlinked \cup {p.sampleWork[index + 1]}
                   /\ providers' = [providers EXCEPT
                          ![pid].sampleWork = Splice(p.sampleWork, index)]
                   /\ resp' = [op |-> "deleteSample", status |-> 200]
    /\ UNCHANGED <<nextProviderId, requests, nextFile, clock, reqUserSet, inflight>>
    /\ UNCHANGED <<taskVars, accountVars, listCalls>>

(***************************************************************************)
(* DELETE /admin/providers/:id                                             *)
(***************************************************************************)
AdminDelete(pid) ==
    /\ IF pid \notin DOMAIN providers THEN
           /\ resp' = [op |-> "adminDelete", status |-> 404]
           /\ UNCHANGED providers
       ELSE
           /\ providers' = [id \in DOMAIN providers \ {pid} |-> providers[id]]
           /\ resp' = [op |-> "adminDelete", status |-> 200]
    /\ UNCHANGED <<nextProviderId, requests, nextFile, clock, reqUserSet, inflight>>
    /\ UNCHANGED <<taskVars, accountVars, listCalls, unlinked>>

(***************************************************************************)
(* POST /providers/:id/review                                              *)
(***************************************************************************)
Ratings == {0, 4, 5}

RECURSIVE SumRatings(_)
SumRatings(rs) ==
    IF rs = <<>> THEN 0 ELSE rs[1].rating + SumRatings(Tail(rs))

\* parseFloat((total / n).toFixed(1)), in tenths
RoundedMean(total, n) == (20 * total + n) \div (2 * n)

\* providerSchema.methods.calculateRating
CalculateRating(rs) ==
    IF Len(rs) = 0 THEN 0 ELSE RoundedMean(SumRatings(rs), Len(rs))

\* the duplicate scan left out: no review is ever found
AlreadyReviewedMutant(rs, u) == FALSE

\* provider.reviews.find(r => r.userId.toString() === req.user._id.toString())
AlreadyReviewed(rs, u) == \E i \in DOMAIN rs : rs[i].userId = u

\* findById, the duplicate scan and the early returns; the handler then
\* awaits User.findById
ReviewFind(c, u, pid, rating) ==
    /\ inflight[c] = NoDoc
    /\ IF pid \notin DOMAIN providers THEN
           /\ resp' = [op |-> "review", status |-> 200, success |-> FALSE,
                       message |-> "Provider not found", uid |-> u, pid |-> pid]
           /\ UNCHANGED inflight
       ELSE IF AlreadyReviewed(providers[pid].reviews, u) THEN
           /\ resp' = [op |-> "review", status |-> 200, success |-> FALSE,
                       message |-> "You already reviewed this provider",
                       uid |-> u, pid |-> pid]
           /\ UNCHANGED inflight
       ELSE
           /\ inflight' = [inflight EXCEPT ![c] =
                  [uid |-> u, pid |-> pid, rating |-> rating,
                   reviews |-> providers[pid].reviews]]
           /\ UNCHANGED resp
    /\ UNCHANGED <<providers, nextProviderId, requests, nextFile, clock, reqUserSet>>
    /\ UNCHANGED <<taskVars, accountVars, listCalls, unlinked>>

\* reviews.push(review); calculateRating(); save().  save() sends the pushed
\* review as an append to the stored list and the new averageRating as a set
ReviewSave(c) ==
    /\ inflight[c] # NoDoc
    /\ LET q == inflight[c]
           review == [userId |-> q.uid, rating |-> q.rating]
           local == Append(q.reviews, review)
           ok == q.pid \in DOMAIN providers /\ q.rating \in 1..5
       IN  /\ providers' =
                  IF ok
                  THEN [providers EXCEPT
                          ![q.pid].reviews = Append(@, review),
                          ![q.pid].averageRating = CalculateRating(local)]
                  ELSE providers
           /\ resp' = [op |-> "review", status |-> IF ok THEN 200 ELSE 500,
                       success |-> ok, message |-> IF ok THEN "Review added"
                                                   ELSE "Error adding review",
                       uid |-> q.uid, pid |-> q.pid]
    /\ inflight' = [inflight EXCEPT ![c] = NoDoc]
    /\ UNCHANGED <<nextProviderId, requests, nextFile, clock, reqUserSet>>
    /\ UNCHANGED <<taskVars, accountVars, listCalls, unlinked>>

(***************************************************************************)
(* Tasks (routes/taskRoutes.js).  Text that the handlers trim is a         *)
(* sequence of characters; a body value is a string or an array of         *)
(* strings; a key the body lacks is undefined.                             *)
(***************************************************************************)
Undefined == [kind |-> "undefined"]
StringValue(chars) == [kind |-> "string", chars |-> chars]
ArrayValue(items) == [kind |-> "array", items |-> items]

\* const { key } = req.body
Field(body, key) == IF key \in DOMAIN body THEN body[key] ELSE Undefined

\* JavaScript truthiness: undefined and "" are falsy, every array is truthy
Truthy(v) == v.kind = "array" \/ (v.kind = "string" /\ v.chars # <<>>)

\* Array.prototype.join(",")
RECURSIVE JoinComma(_)
JoinComma(items) ==
    IF items = <<>> THEN <<>>
    ELSE IF Len(items) = 1 THEN items[1]
    ELSE items[1] \o <<",">> \o JoinComma(Tail(items))

\* value.toString() of a string or an array
ValueToString(v) == IF v.kind = "array" THEN JoinComma(v.items) ELSE v.chars

\* String.prototype.trim
RECURSIVE TrimStart(_)
TrimStart(s) == IF s # <<>> /\ s[1] = " " THEN TrimStart(Tail(s)) ELSE s
RECURSIVE TrimEnd(_)
TrimEnd(s) ==
    IF s # <<>> /\ s[Len(s)] = " " THEN TrimEnd(SubSeq(s, 1, Len(s) - 1)) ELSE s
Trim(s) == TrimEnd(TrimStart(s))

\* location || (city && region ? `${city}, ${region}` : "")
FinalLocation(body) ==
    IF Truthy(Field(body, "location")) THEN Field(body, "location")
    ELSE IF Truthy(Field(body, "city")) /\ Truthy(Field(body, "region"))
    THEN StringValue(ValueToString(Field(body, "city")) \o <<",", " ">>
                     \o ValueToString(Field(body, "region")))
    ELSE StringValue(<<>>)

RequiredKeys == <<"title", "category", "description", "location", "dueDate", "phone">>

\* the requiredFields object
RequiredFields(body) ==
    [key \in {RequiredKeys[i] : i \in DOMAIN RequiredKeys} |->
        IF key = "location" THEN FinalLocation(body) ELSE Field(body, key)]

\* the filter without the trim test: only !value
IsMissingMutant(v) == ~Truthy(v)

\* !value || value.toString().trim() === ""
IsMissing(v) == ~Truthy(v) \/ Trim(ValueToString(v)) = <<>>

\* Object.entries(requiredFields).filter(...).map(([key]) => key)
MissingFields(body) ==
    LET Test(key) == IsMissing(RequiredFields(body)[key])
    IN  SelectSeq(RequiredKeys, Test)

\* Array.isArray(category) ? category : (typeof category === 'string' ? [category] : [])
Categories(v) ==
    IF v.kind = "array" THEN v.items
    ELSE IF v.kind = "string" THEN <<v.chars>> ELSE <<>>

\* category[0]: the first element of an array, the first character of a string
FirstOf(v) ==
    IF v.kind = "array" THEN (IF v.items = <<>> THEN <<>> ELSE v.items[1])
    ELSE IF v.chars = <<>> THEN <<>> ELSE <<v.chars[1]>>

\* mainCategory || category[0]
MainCategory(body) ==
    IF Truthy(Field(body, "mainCategory")) THEN ValueToString(Field(body, "mainCategory"))
    ELSE FirstOf(Field(body, "category"))

\* a date string new Date() parses
DateText == <<"2", "0", "2", "7">>
ParsesAsDate(chars) == chars = DateText

\* new Task({...}) of POST /
NewTask(u, body, files) ==
    [title |-> Trim(ValueToString(Field(body, "title"))),
     mainCategory |-> MainCategory(body),
     category |-> Categories(Field(body, "category")),
     description |-> Trim(ValueToString(Field(body, "description"))),
     location |-> Trim(ValueToString(FinalLocation(body))),
     city |-> IF Truthy(Field(body, "city")) THEN ValueToString(Field(body, "city")) ELSE <<>>,
     region |-> IF Truthy(Field(body, "region")) THEN ValueToString(Field(body, "region")) ELSE <<>>,
     dueDate |-> ValueToString(Field(body, "dueDate")),
     status |-> "open",
     completedAt |-> 0,
     phone |-> Trim(ValueToString(Field(body, "phone"))),
     images |-> files,
     clientId |-> u]

\* the limit of the arrayLimit helper, which no schema path uses
MaxTaskCategories == 5

\* taskSchema validation run by save(); String paths with trim are trimmed
\* before the required test
ValidTask(t) ==
    /\ Trim(t.title) # <<>>
    /\ Trim(t.mainCategory) # <<>>
    /\ \A i \in DOMAIN t.category : t.category[i] # <<>>
    /\ Trim(t.description) # <<>>
    /\ ParsesAsDate(t.dueDate)
    /\ t.phone # <<>>
    /\ t.status \in {"open", "completed"}

\* title.trim(), description.trim(), finalLocation.trim(), phone.trim():
\* an array has no trim method
CreateThrows(body) ==
    \E key \in {"title", "description", "dueDate", "phone"} :
        RequiredFields(body)[key].kind # "string"

\* the file names of an upload as a set
FileSet(files) == {files[i] : i \in DOMAIN files}

\* POST /tasks; multer has written the uploaded files before the handler runs
CreateTask(u, body, k) ==
    /\ nextFile + k - 1 <= MaxImages
    /\ LET files == NewFiles(nextFile, k)
           missingFields == MissingFields(body)
           task == NewTask(u, body, files)
       IN  /\ disk' = disk \cup FileSet(files)
           /\ nextFile' = nextFile + k
           /\ IF Len(missingFields) > 0 THEN
                  /\ resp' = [op |-> "createTask", status |-> 400, uid |-> u,
                              body |-> body, missing |-> missingFields]
                  /\ UNCHANGED <<tasks, nextTaskId>>
              ELSE IF CreateThrows(body) \/ ~ValidTask(task) THEN
                  /\ resp' = [op |-> "createTask", status |-> 500, uid |-> u,
                              body |-> body, missing |-> <<>>]
                  /\ UNCHANGED <<tasks, nextTaskId>>
              ELSE
                  /\ nextTaskId <= MaxTasks
                  /\ tasks' = (nextTaskId :> task) @@ tasks
                  /\ nextTaskId' = nextTaskId + 1
                  /\ resp' = [op |-> "createTask", status |-> 201, uid |-> u,
                              body |-> body, missing |-> <<>>]
    /\ UNCHANGED <<statusCalls, clock>>
    /\ UNCHANGED <<providerVars, accountVars, listCalls, unlinked>>

\* task.clientId.toString() !== req.user.id, negated; without the test
IsOwnerMutant(task, u) == TRUE
IsOwner(task, u) == task.clientId = u

\* x || old for a text path of the task
OrOld(body, key, old) ==
    IF Truthy(Field(body, key)) THEN ValueToString(Field(body, key)) ELSE old

\* existingImages ? JSON.parse(existingImages) : []
ParsedExistingImages(body) ==
    IF HasList(body, "existingImages") THEN body.existingImages.list ELSE <<>>

\* the assignments of PUT /:id; the schema trims title and description
EditedTask(task, body, kept, files) ==
    [title |-> Trim(OrOld(body, "title", task.title)),
     category |-> IF Field(body, "category").kind = "undefined" THEN task.category
                  ELSE Categories(Field(body, "category")),
     description |-> Trim(OrOld(body, "description", task.description)),
     city |-> OrOld(body, "city", task.city),
     region |-> OrOld(body, "region", task.region),
     location |-> IF Truthy(Field(body, "city")) /\ Truthy(Field(body, "region"))
                  THEN ValueToString(Field(body, "city")) \o <<",", " ">>
                       \o ValueToString(Field(body, "region"))
                  ELSE task.location,
     dueDate |-> OrOld(body, "dueDate", task.dueDate),
     phone |-> OrOld(body, "phone", task.phone),
     images |-> kept \o files] @@ task

\* PUT /tasks/:id; multer has written the new files before the handler runs
UpdateTask(u, tid, body, k) ==
    /\ nextFile + k - 1 <= MaxImages
    /\ LET files == NewFiles(nextFile, k)
           uploaded == disk \cup FileSet(files)
           answer(code) == [op |-> "updateTask", status |-> code, uid |-> u,
                            tid |-> tid, requested |-> "none"]
       IN  /\ nextFile' = nextFile + k
           /\ IF tid \notin DOMAIN tasks THEN
                  /\ resp' = answer(404)
                  /\ disk' = uploaded
                  /\ UNCHANGED tasks
              ELSE IF ~IsOwner(tasks[tid], u) THEN
                  /\ resp' = answer(403)
                  /\ disk' = uploaded
                  /\ UNCHANGED tasks
              ELSE IF HasList(body, "existingImages")
                      /\ body.existingImages.kind # "json" THEN
                  \* JSON.parse throws
                  /\ resp' = answer(500)
                  /\ disk' = uploaded
                  /\ UNCHANGED tasks
              ELSE
                  LET kept == ParsedExistingImages(body)
                      removedImages == {img \in FileSet(tasks[tid].images) :
                                           img \notin FileSet(kept)}
                      edited == EditedTask(tasks[tid], body, kept, files)
                  IN  /\ disk' = uploaded \ removedImages
                      /\ IF ValidTask(edited)
                         THEN /\ tasks' = [tasks EXCEPT ![tid] = edited]
                              /\ resp' = answer(200)
                         ELSE /\ UNCHANGED tasks
                              /\ resp' = answer(500)
    /\ UNCHANGED <<nextTaskId, statusCalls, clock>>
    /\ UNCHANGED <<providerVars, accountVars, listCalls, unlinked>>

\* DELETE /tasks/:id
DeleteTask(u, tid) ==
    /\ LET answer(code) == [op |-> "deleteTask", status |-> code, uid |-> u,
                            tid |-> tid, requested |-> "none"]
       IN  IF tid \notin DOMAIN tasks THEN
               /\ resp' = answer(404)
               /\ UNCHANGED tasks
           ELSE IF ~IsOwner(tasks[tid], u) THEN
               /\ resp' = answer(403)
               /\ UNCHANGED tasks
           ELSE
               /\ tasks' = [id \in DOMAIN tasks \ {tid} |-> tasks[id]]
               /\ resp' = answer(200)
    /\ UNCHANGED <<nextTaskId, disk, statusCalls, nextFile, clock>>
    /\ UNCHANGED <<providerVars, accountVars, listCalls, unlinked>>

ValidStatuses == {"open", "completed"}
Statuses == ValidStatuses \cup {"cancelled"}

\* the paths the assignments of PUT /:id/status mark modified on the loaded
\* document: a path assigned the value it already has is not modified
ModifiedPaths(task, status, completedAt) ==
    {p \in {"status", "completedAt"} :
        \/ p = "status" /\ status # task.status
        \/ p = "completedAt" /\ completedAt # task.completedAt}

\* PUT /tasks/:id/status up to the call of task.save(): the checks, findById
\* and the assignments on the loaded document
StatusFind(c, u, tid, status) ==
    /\ statusCalls[c] = NoDoc
    /\ LET answer(code) == [op |-> "status", status |-> code, uid |-> u,
                            tid |-> tid, requested |-> status]
       IN  IF status \notin ValidStatuses THEN
               /\ resp' = answer(400)
               /\ UNCHANGED <<statusCalls, clock>>
           ELSE IF tid \notin DOMAIN tasks THEN
               /\ resp' = answer(404)
               /\ UNCHANGED <<statusCalls, clock>>
           ELSE IF ~IsOwner(tasks[tid], u) THEN
               /\ resp' = answer(403)
               /\ UNCHANGED <<statusCalls, clock>>
           ELSE
               /\ status = "completed" => clock <= MaxClock
               /\ LET completedAt == IF status = "completed" THEN clock ELSE 0
                  IN  statusCalls' = [statusCalls EXCEPT ![c] =
                          [uid |-> u, tid |-> tid, status |-> status,
                           completedAt |-> completedAt,
                           modified |-> ModifiedPaths(tasks[tid], status, completedAt)]]
               /\ clock' = IF status = "completed" THEN clock + 1 ELSE clock
               /\ UNCHANGED resp
    /\ UNCHANGED <<tasks, nextTaskId, disk, nextFile>>
    /\ UNCHANGED <<providerVars, accountVars, listCalls, unlinked>>

\* task.save() of PUT /:id/status: the modified paths are written to the
\* stored document; with no modified path nothing is sent
StatusSave(c) ==
    /\ statusCalls[c] # NoDoc
    /\ LET q == statusCalls[c]
           answer(code) == [op |-> "status", status |-> code, uid |-> q.uid,
                            tid |-> q.tid, requested |-> q.status]
       IN  IF q.modified = {} THEN
               /\ resp' = answer(200)
               /\ UNCHANGED tasks
           ELSE IF q.tid \notin DOMAIN tasks THEN
               \* the document was deleted meanwhile: DocumentNotFoundError
               /\ resp' = answer(500)
               /\ UNCHANGED tasks
           ELSE
               /\ tasks' = [tasks EXCEPT
                     ![q.tid].status =
                         IF "status" \in q.modified THEN q.status ELSE @,
                     ![q.tid].completedAt =
                         IF "completedAt" \in q.modified THEN q.completedAt ELSE @]
               /\ resp' = answer(200)
    /\ statusCalls' = [statusCalls EXCEPT ![c] = NoDoc]
    /\ UNCHANGED <<nextTaskId, disk, nextFile, clock>>
    /\ UNCHANGED <<providerVars, accountVars, listCalls, unlinked>>

(***************************************************************************)
(* Region and category listings.  A query string is text; a stored value   *)
(* is text or a sequence of characters: both are read with Len, Head and   *)
(* Tail only.                                                              *)
(***************************************************************************)
\* String.prototype.toLowerCase of one character
LowerChar(c) ==
    CASE c = "A" -> "a" [] c = "B" -> "b" [] c = "C" -> "c" [] c = "D" -> "d"
      [] c = "E" -> "e" [] c = "F" -> "f" [] c = "G" -> "g" [] c = "H" -> "h"
      [] c = "I" -> "i" [] c = "J" -> "j" [] c = "K" -> "k" [] c = "L" -> "l"
      [] c = "M" -> "m" [] c = "N" -> "n" [] c = "O" -> "o" [] c = "P" -> "p"
      [] c = "Q" -> "q" [] c = "R" -> "r" [] c = "S" -> "s" [] c = "T" -> "t"
      [] c = "U" -> "u" [] c = "V" -> "v" [] c = "W" -> "w" [] c = "X" -> "x"
      [] c = "Y" -> "y" [] c = "Z" -> "z" [] OTHER -> c

\* the text without its first and last spaces: String.prototype.trim
RECURSIVE TrimTextStart(_)
TrimTextStart(s) ==
    IF Len(s) > 0 /\ Head(s) = " " THEN TrimTextStart(Tail(s)) ELSE s
RECURSIVE TrimTextEnd(_)
TrimTextEnd(s) ==
    IF Len(s) > 0 /\ SubSeq(s, Len(s), Len(s)) = " "
    THEN TrimTextEnd(SubSeq(s, 1, Len(s) - 1)) ELSE s
TrimText(s) == TrimTextEnd(TrimTextStart(s))

\* a.toLowerCase() === b.toLowerCase()
RECURSIVE EqualIgnoringCase(_, _)
EqualIgnoringCase(a, b) ==
    IF Len(a) = 0 \/ Len(b) = 0 THEN Len(a) = Len(b)
    ELSE /\ LowerChar(Head(a)) = LowerChar(Head(b))
         /\ EqualIgnoringCase(Tail(a), Tail(b))

\* pattern.test(value) for new RegExp(pattern, 'i') where pattern is the rest
\* of `^...$`: a letter matches itself in either case, "." matches any
\* character, "(" and ")" open and close a group and match no character
RECURSIVE RegexTest(_, _)
RegexTest(pattern, value) ==
    IF Len(pattern) = 0 THEN Len(value) = 0
    ELSE IF Head(pattern) \in {"(", ")"} THEN RegexTest(Tail(pattern), value)
    ELSE /\ Len(value) > 0
         /\ Head(pattern) = "." \/ LowerChar(Head(pattern)) = LowerChar(Head(value))
         /\ RegexTest(Tail(pattern), Tail(value))

\* / region$/i
EndsWithRegion(s) ==
    Len(s) >= 7 /\ RegexTest(" region", SubSeq(s, Len(s) - 6, Len(s)))

\* region.replace(/ region$/i, '').trim()
CleanRegion(region) ==
    TrimText(IF EndsWithRegion(region) THEN SubSeq(region, 1, Len(region) - 7)
             ELSE region)

\* GET /tasks: filter.status and filter.region
TaskFilter(region, status) ==
    {tid \in DOMAIN tasks :
        /\ tasks[tid].status = (IF status = "" THEN "open" ELSE status)
        /\ region # "" => RegexTest(CleanRegion(region), tasks[tid].region)}

\* new RegExp(pattern, 'i') without anchors: some part of the value matches
RegexSearch(pattern, value) ==
    \E i \in 1..(Len(value) + 1), j \in 0..Len(value) :
        RegexTest(pattern, SubSeq(value, i, j))

\* the filter with mainCategory compared without regard to letter case
TaskQueryFilterMutant(q) ==
    {tid \in TaskFilter(q.region, q.status) :
        /\ q.mainCategory # <<>> => RegexTest(q.mainCategory, tasks[tid].mainCategory)
        /\ q.category # <<>> =>
               \E i \in DOMAIN tasks[tid].category : tasks[tid].category[i] = q.category
        /\ q.city # <<>> => RegexSearch(q.city, tasks[tid].city)}
\* GET /tasks: the whole filter object; a parameter the query lacks is empty
TaskQueryFilter(q) ==
    {tid \in TaskFilter(q.region, q.status) :
        /\ q.mainCategory # <<>> => tasks[tid].mainCategory = q.mainCategory
        /\ q.category # <<>> =>
               \E i \in DOMAIN tasks[tid].category : tasks[tid].category[i] = q.category
        /\ q.city # <<>> => RegexSearch(q.city, tasks[tid].city)}

\* .sort({ createdAt: -1 }): the newest task first
RECURSIVE NewestFirst(_)
NewestFirst(ids) ==
    IF ids = {} THEN <<>>
    ELSE LET newest == CHOOSE a \in ids : \A b \in ids : a >= b
         IN  <<newest>> \o NewestFirst(ids \ {newest})

\* .skip((page - 1) * limit).limit(limit)
PageOf(list, page, limit) ==
    SubSeq(list, (page - 1) * limit + 1, Min(Len(list), page * limit))

\* Math.ceil(total / limit) for a positive limit
CeilDiv(total, limit) == (total + limit - 1) \div limit

\* Task.countDocuments(filter)
CountDocumentsMutant(q) == Cardinality(DOMAIN tasks)
CountDocuments(q) == Cardinality(TaskQueryFilter(q))

ListResp(q, page, total) ==
    [op |-> "listTasks", status |-> 200, query |-> q, tasks |-> page,
     count |-> Len(page), total |-> total, page |-> q.page,
     totalPages |-> CeilDiv(total, q.limit)]

\* GET /tasks with both queries of the Promise.all reading the same state
ListTasks(q) ==
    /\ resp' = ListResp(q, PageOf(NewestFirst(TaskQueryFilter(q)), q.page, q.limit),
                        CountDocuments(q))
    /\ UNCHANGED <<nextFile, clock>>
    /\ UNCHANGED <<providerVars, taskVars, accountVars, listCalls, unlinked>>

\* GET /tasks, the page query of the Promise.all.  The call keeps, beside
\* the page, the collection the page was read from and the number of tasks
\* the filter matched in it; neither is part of the response body.
ListFind(c, q) ==
    /\ listCalls[c] = NoDoc
    /\ listCalls' = [listCalls EXCEPT ![c] =
           [query |-> q, readFrom |-> tasks,
            matched |-> Cardinality(TaskQueryFilter(q)),
            tasks |-> PageOf(NewestFirst(TaskQueryFilter(q)), q.page, q.limit)]]
    /\ UNCHANGED <<nextFile, clock, unlinked, resp>>
    /\ UNCHANGED <<providerVars, taskVars, accountVars>>

\* GET /tasks, the count query of the Promise.all and the response
ListCount(c) ==
    /\ listCalls[c] # NoDoc
    /\ resp' = [matched |-> listCalls[c].matched] @@
                ListResp(listCalls[c].query, listCalls[c].tasks,
                         CountDocuments(listCalls[c].query))
    /\ listCalls' = [listCalls EXCEPT ![c] = NoDoc]
    /\ UNCHANGED <<nextFile, clock, unlinked>>
    /\ UNCHANGED <<providerVars, taskVars, accountVars>>

\* the $match stage of GET /tasks/region-stats/:regionName
RegionStatsMatch(regionName) ==
    {tid \in DOMAIN tasks :
        /\ tasks[tid].status = "open"
        /\ RegexTest(CleanRegion(regionName), tasks[tid].region)
        /\ Len(tasks[tid].mainCategory) > 0}

\* the $group stage: the number of matched tasks of each mainCategory
RegionStatsGroups(regionName) ==
    {[category |-> tasks[tid].mainCategory,
      count |-> Cardinality({o \in RegionStatsMatch(regionName) :
                                tasks[o].mainCategory = tasks[tid].mainCategory})] :
        tid \in RegionStatsMatch(regionName)}

\* the orders { $sort: { <key>: -1 } } can give to a set of groups
SortedDescending(groups, key) ==
    {order \in [1..Cardinality(groups) -> groups] :
        /\ \A i, j \in DOMAIN order : i # j => order[i] # order[j]
        /\ \A i, j \in DOMAIN order : i < j => order[i][key] >= order[j][key]}

\* Task.countDocuments({ status: 'open', region })
RegionTotalJobs(regionName) ==
    Cardinality({tid \in DOMAIN tasks :
        /\ tasks[tid].status = "open"
        /\ RegexTest(CleanRegion(regionName), tasks[tid].region)})

\* the response of a handler in which a database call rejected: whether a
\* response was sent (status 0: none), whether it is JSON, and its keys
Thrown(op, status, json, success, keys) ==
    [op |-> op, threw |-> TRUE, status |-> status, json |-> json,
     success |-> success, keys |-> keys]

\* a rejected promise in an async handler without try/catch: Express 4
\* leaves the request unanswered, Express 5 passes the error to the default
\* error handler, which answers 500 with an HTML page
Escaped(op) ==
    {Thrown(op, 0, FALSE, FALSE, {}), Thrown(op, 500, FALSE, FALSE, {})}

RegionStats(regionName, dbFail) ==
    /\ IF dbFail THEN
           resp' = Thrown("regionStats", 500, TRUE, FALSE, {"success", "error"})
       ELSE
           \E stats \in SortedDescending(RegionStatsGroups(regionName), "count") :
               resp' = [op |-> "regionStats", status |-> 200, region |-> regionName,
                        stats |-> stats, totalJobs |-> RegionTotalJobs(regionName)]
    /\ UNCHANGED <<nextFile, clock>>
    /\ UNCHANGED <<providerVars>>
    /\ UNCHANGED <<taskVars, accountVars, listCalls, unlinked>>

\* GET /providers/jobs-by-region
GhanaRegions == {"Ashanti", "Volta"}
PopularCategories == {<<"P", "o", "p">>}

\* the open jobs the handler counts, and the region each is counted under
CountedJobs ==
    {tid \in DOMAIN tasks :
        tasks[tid].status = "open" /\ tasks[tid].mainCategory \notin PopularCategories}
TargetRegion(task) ==
    IF \E r \in GhanaRegions : EqualIgnoringCase(r, Trim(task.region))
    THEN CHOOSE r \in GhanaRegions : EqualIgnoringCase(r, Trim(task.region))
    ELSE "Unspecified Region"

JobsByRegion(dbFail) ==
    /\ IF dbFail THEN
           resp' = Thrown("jobsByRegion", 200, TRUE, TRUE,
                          {"success", "regions", "totalJobs", "error", "timestamp"})
       ELSE
           resp' = [op |-> "jobsByRegion", status |-> 200,
                    regions |-> [r \in GhanaRegions \cup {"Unspecified Region"} |->
                        Cardinality({tid \in CountedJobs : TargetRegion(tasks[tid]) = r})],
                    totalJobs |-> Cardinality(CountedJobs),
                    totalOpenJobs |-> Cardinality({tid \in DOMAIN tasks :
                                                      tasks[tid].status = "open"})]
    /\ UNCHANGED <<nextFile, clock>>
    /\ UNCHANGED <<providerVars>>
    /\ UNCHANGED <<taskVars, accountVars, listCalls, unlinked>>

\* rows of the mainCategoryToSubCategories table of GET /region-category
MainCategoryToSubCategories ==
    [c \in {"Informal & On-Demand Services", "Plumbing & Water Services"} |->
        IF c = "Informal & On-Demand Services"
        THEN <<"Kiosk Repairs", "Sign Writing", "Water Vendor (Private Supply)">>
        ELSE <<"Plumbing Installation & Repairs", "Pipe Leakage Fixing">>]

\* the patterns of query.category.$in
CategoryPatterns(category) ==
    IF category \in DOMAIN MainCategoryToSubCategories
    THEN MainCategoryToSubCategories[category]
    ELSE <<category>>

\* Provider.find(query) of GET /providers/region-category
RegionCategoryQuery(region, category) ==
    {pid \in DOMAIN providers :
        /\ RegexTest(region, providers[pid].region)
        /\ \E i \in DOMAIN providers[pid].category,
              j \in DOMAIN CategoryPatterns(category) :
              RegexTest(CategoryPatterns(category)[j], providers[pid].category[i])}

RegionCategory(region, category) ==
    /\ resp' = [op |-> "regionCategory", status |-> 200, region |-> region,
                category |-> category,
                providers |-> RegionCategoryQuery(region, category)]
    /\ UNCHANGED <<nextFile, clock>>
    /\ UNCHANGED <<providerVars>>
    /\ UNCHANGED <<taskVars, accountVars, listCalls, unlinked>>

\* the $match stage of GET /providers/region/:regionName/category-counts
CategoryCountsMatch(regionName) ==
    {pid \in DOMAIN providers :
        /\ RegexTest(regionName, providers[pid].region)
        /\ providers[pid].category # <<>>}

\* $unwind and $group: for each category the providers that list it, once
\* for each time they list it
CategoryCountsGroups(regionName) ==
    LET matched == CategoryCountsMatch(regionName)
        listed == UNION {{providers[pid].category[i] :
                             i \in DOMAIN providers[pid].category} : pid \in matched}
        rows(cat) == {<<pid, i>> \in matched \X (1..MaxCategories) :
                         /\ i \in DOMAIN providers[pid].category
                         /\ providers[pid].category[i] = cat}
    IN  {[category |-> cat,
          providerCount |-> Cardinality(rows(cat)),
          sampleProviders |-> Min(Cardinality(rows(cat)), 3)] : cat \in listed}

\* Provider.countDocuments({ region })
TotalProviders(regionName) ==
    Cardinality({pid \in DOMAIN providers :
                    RegexTest(regionName, providers[pid].region)})

CategoryCounts(regionName) ==
    /\ \E stats \in SortedDescending(CategoryCountsGroups(regionName), "providerCount") :
               resp' = [op |-> "categoryCounts", status |-> 200,
                        region |-> regionName,
                        totalProviders |-> TotalProviders(regionName),
                        categoryStats |-> stats]
    /\ UNCHANGED <<nextFile, clock>>
    /\ UNCHANGED <<providerVars>>
    /\ UNCHANGED <<taskVars, accountVars, listCalls, unlinked>>

\* PATCH /providers/:id/approve
ToggleApproved(pid, dbFail) ==
    /\ IF dbFail THEN
           /\ resp' \in Escaped("toggleApproved")
           /\ UNCHANGED providers
       ELSE IF pid \notin DOMAIN providers THEN
           /\ resp' = [op |-> "toggleApproved", status |-> 404]
           /\ UNCHANGED providers
       ELSE
           /\ providers' = [providers EXCEPT ![pid].isApproved = ~@]
           /\ resp' = [op |-> "toggleApproved", status |-> 200]
    /\ UNCHANGED <<nextProviderId, requests, nextFile, clock, reqUserSet, inflight>>
    /\ UNCHANGED <<taskVars, accountVars, listCalls, unlinked>>

(***************************************************************************)
(* POST /providers as two steps: the handler awaits Provider.findOne and   *)
(* later newProvider.save(), and another registration of the same user     *)
(* can run between the two.                                                *)
(***************************************************************************)
AlreadyRegisteredMessage == "You have already registered as a provider."
NamesRequiredMessage == "First name and surname are required."
DuplicateKeyMessage == "E11000 duplicate key error"

\* files: the uploads multer wrote for the request before the handler ran
RegisterResp(status, u, message, files) ==
    [op |-> "register", status |-> status, uid |-> u, message |-> message,
     files |-> files]

\* no unique index on userId
DuplicateUserIdMutant(u) == FALSE
\* the unique index on userId refuses a second document of the user
DuplicateUserId(u) == ProviderOf(u) # {}

RegisterFind(c, u, body, k) ==
    /\ registrations[c] = NoDoc
    /\ nextFile + k - 1 <= MaxFiles
    /\ nextFile' = nextFile + k
    /\ IF ProviderOf(u) # {} THEN
           /\ resp' = RegisterResp(400, u, AlreadyRegisteredMessage,
                                   NewFiles(nextFile, k))
           /\ UNCHANGED registrations
       ELSE
           /\ registrations' = [registrations EXCEPT ![c] =
                  [uid |-> u, body |-> body, files |-> NewFiles(nextFile, k)]]
           /\ UNCHANGED resp
    /\ UNCHANGED <<providers, nextProviderId, requests, clock, reqUserSet, inflight>>
    /\ UNCHANGED <<taskVars, users, nextUserId, listCalls, unlinked>>

\* the catch block unlinks every file of req.files
RegisterSave(c) ==
    /\ registrations[c] # NoDoc
    /\ LET r == registrations[c]
           doc == NewProvider(r.uid, r.body, r.files)
       IN  IF r.body.fname = "" \/ r.body.sname = "" THEN
               /\ resp' = RegisterResp(400, r.uid, NamesRequiredMessage, r.files)
               /\ UNCHANGED <<providers, nextProviderId, unlinked>>
           ELSE IF RegisterParseThrows(r.body) \/ ~ValidProvider(doc) THEN
               /\ resp' = RegisterResp(500, r.uid, "", r.files)
               /\ unlinked' = unlinked \cup Range(r.files)
               /\ UNCHANGED <<providers, nextProviderId>>
           ELSE IF DuplicateUserId(r.uid) THEN
               /\ resp' = RegisterResp(500, r.uid, DuplicateKeyMessage, r.files)
               /\ unlinked' = unlinked \cup Range(r.files)
               /\ UNCHANGED <<providers, nextProviderId>>
           ELSE
               /\ nextProviderId <= MaxRegistered
               /\ providers' = (nextProviderId :> doc) @@ providers
               /\ nextProviderId' = nextProviderId + 1
               /\ resp' = RegisterResp(201, r.uid, "", r.files)
               /\ UNCHANGED unlinked
    /\ registrations' = [registrations EXCEPT ![c] = NoDoc]
    /\ UNCHANGED <<requests, nextFile, clock, reqUserSet, inflight>>
    /\ UNCHANGED <<taskVars, users, nextUserId, listCalls>>

(***************************************************************************)
(* The User collection: POST /auth/register, the administrator's           *)
(* POST /admin/users and PUT /admin/users/:id.  phone and whatsapp are     *)
(* String paths with default null, trim, and a unique sparse index.        *)
(***************************************************************************)
Null == [kind |-> "null"]
MinPasswordLength == 6

\* the String path: a given string is trimmed, a path never set takes the
\* default null
PhonePath(v) ==
    IF v.kind = "undefined" THEN Null
    ELSE IF v.kind = "string" THEN StringValue(Trim(v.chars))
    ELSE v

NewUser(email, phone, whatsapp) ==
    [email |-> email, phone |-> PhonePath(phone), whatsapp |-> PhonePath(whatsapp)]

\* a sparse index holds an entry for every document that has the field,
\* a field whose value is null included
Indexed(v) == v.kind # "undefined"

\* E11000 of the unique sparse index on the path
DuplicateKey(doc, id, path) ==
    /\ Indexed(doc[path])
    /\ \E o \in DOMAIN users \ {id} : users[o][path] = doc[path]

\* E11000 of the unique index on email
DuplicateEmail(doc, id) == \E o \in DOMAIN users \ {id} : users[o].email = doc.email

SaveRefused(doc, id) ==
    \/ DuplicateEmail(doc, id)
    \/ DuplicateKey(doc, id, "phone")
    \/ DuplicateKey(doc, id, "whatsapp")

\* User.findOne({ email })
UserByEmail(email) == {id \in DOMAIN users : users[id].email = email}

UserResp(op, status, body) == [op |-> op, status |-> status, body |-> body]

RegisterUser(body) ==
    /\ IF body.name = "" \/ body.email = "" \/ body.password = "" THEN
           /\ resp' = UserResp("registerUser", 400, body)
           /\ UNCHANGED <<users, nextUserId>>
       ELSE IF Len(body.password) < MinPasswordLength THEN
           /\ resp' = UserResp("registerUser", 400, body)
           /\ UNCHANGED <<users, nextUserId>>
       ELSE IF UserByEmail(body.email) # {} THEN
           /\ resp' = UserResp("registerUser", 400, body)
           /\ UNCHANGED <<users, nextUserId>>
       ELSE LET doc == NewUser(body.email, Undefined, Undefined)
            IN  IF SaveRefused(doc, nextUserId) THEN
                    /\ resp' = UserResp("registerUser", 400, body)
                    /\ UNCHANGED <<users, nextUserId>>
                ELSE
                    /\ nextUserId <= MaxAccounts
                    /\ users' = (nextUserId :> doc) @@ users
                    /\ nextUserId' = nextUserId + 1
                    /\ resp' = UserResp("registerUser", 201, body)
    /\ UNCHANGED <<providerVars, taskVars, registrations, nextFile, clock,
                 listCalls, unlinked>>

AdminCreateUser(body) ==
    /\ IF UserByEmail(body.email) # {} THEN
           /\ resp' = UserResp("adminCreateUser", 400, body)
           /\ UNCHANGED <<users, nextUserId>>
       ELSE LET doc == NewUser(body.email, Field(body, "phone"), Field(body, "whatsapp"))
            IN  IF body.name = "" \/ body.password = "" \/ SaveRefused(doc, nextUserId) THEN
                    /\ resp' = UserResp("adminCreateUser", 500, body)
                    /\ UNCHANGED <<users, nextUserId>>
                ELSE
                    /\ nextUserId <= MaxAccounts
                    /\ users' = (nextUserId :> doc) @@ users
                    /\ nextUserId' = nextUserId + 1
                    /\ resp' = UserResp("adminCreateUser", 201, body)
    /\ UNCHANGED <<providerVars, taskVars, registrations, nextFile, clock,
                 listCalls, unlinked>>

\* if (phone !== undefined) user.phone = phone, and the same for whatsapp
EditedUser(user, body) ==
    [user EXCEPT
       !.phone = IF "phone" \in DOMAIN body THEN PhonePath(body.phone) ELSE @,
       !.whatsapp = IF "whatsapp" \in DOMAIN body THEN PhonePath(body.whatsapp) ELSE @]

AdminUpdateUser(id, body) ==
    /\ IF id \notin DOMAIN users THEN
           /\ resp' = UserResp("adminUpdateUser", 404, body)
           /\ UNCHANGED users
       ELSE LET doc == EditedUser(users[id], body)
            IN  IF SaveRefused(doc, id) THEN
                    /\ resp' = UserResp("adminUpdateUser", 500, body)
                    /\ UNCHANGED users
                ELSE
                    /\ users' = [users EXCEPT ![id] = doc]
                    /\ resp' = UserResp("adminUpdateUser", 200, body)
    /\ UNCHANGED <<providerVars, taskVars, registrations, nextUserId, nextFile, clock,
                 listCalls, unlinked>>

(***************************************************************************)
(* Specifications.                                                         *)
(***************************************************************************)
RequestIds == 1..MaxRequests
ProviderIds == 1..MaxProviders

\* numbers of files in one upload, within multer's maxCount
RegisterUploads == {0, MaxUploadCount - 1}
Uploads == {0, 2}
SampleIndexes == {0, MaxSampleWork}

\* the update-request workflow: register, submit, approve, reject
NextModeration ==
    \/ \E u \in Registrants, body \in RegBodies, k \in RegisterUploads : Register(u, body, k)
    \/ \E u \in Users, body \in SubmitBodies, k \in Uploads :
           Submit(u, body, k)
    \/ \E rid \in RequestIds, f \in DbFailures : Approve(rid, f)
    \/ \E rid \in RequestIds, reason \in Reasons, f \in RejectFailures :
           Reject(rid, reason, f)

\* every operation that writes a sample-work gallery, on providers that
\* register with a gallery one short of the cap
GalleryRegisterUploads == {MaxUploadCount - 1}
GalleryRegBodies == {body \in RegBodies : body.fname = "Ama"}
GalleryBodies == {[phone |-> "0240000000"]}
GallerySubmitBodies == {[category |-> JsonField(<<"Carpentry">>)]}

NextGallery ==
    \/ \E u \in Registrants, body \in GalleryRegBodies, k \in GalleryRegisterUploads : Register(u, body, k)
    \/ \E u \in Users, body \in GallerySubmitBodies, k \in Uploads :
           Submit(u, body, k)
    \/ \E rid \in RequestIds : Approve(rid, "none")
    \/ \E u \in Users, body \in GalleryBodies, k \in Uploads : UpdateSelf(u, body, k)
    \/ \E u \in Users, body \in GalleryBodies, k \in Uploads :
           UpdateProvider(u, body, k)
    \/ \E pid \in ProviderIds, body \in GalleryBodies, k \in Uploads :
           AdminUpdate(pid, body, k)
    \/ \E u \in Users, index \in SampleIndexes, fail \in SampleFailures :
           DeleteSample(u, index, fail)
    \/ \E pid \in ProviderIds : AdminDelete(pid)

\* reviews of registered providers, with concurrent review requests
NextReview ==
    \/ \E u \in Registrants, body \in RegBodies : Register(u, body, 0)
    \/ \E c \in Reviewers, u \in Users, pid \in ProviderIds, rating \in Ratings :
           ReviewFind(c, u, pid, rating)
    \/ \E c \in Reviewers : ReviewSave(c)

\* profile edits outside the two workflows above
NextEdit ==
    \/ \E u \in Users, body \in UpdateBodies, k \in Uploads : UpdateSelf(u, body, k)
    \/ \E u \in Users, body \in UpdateBodies, k \in Uploads :
           UpdateProvider(u, body, k)
    \/ \E pid \in ProviderIds, body \in UpdateBodies, k \in Uploads :
           AdminUpdate(pid, body, k)
    \/ \E u \in Users, index \in SampleIndexes, fail \in SampleFailures :
           DeleteSample(u, index, fail)

\* request bodies of POST /tasks: every set of required fields left out, in
\* each way of leaving a field out and each way of giving the others
BadKinds == {"absent", "empty", "spaces"}
GoodKinds == {"plain", "rich"}

BadPart(key, bad) ==
    IF bad = "absent" THEN <<>>
    ELSE IF bad = "empty"
    THEN key :> (IF key = "category" THEN ArrayValue(<<>>) ELSE StringValue(<<>>))
    ELSE IF key = "category" THEN key :> ArrayValue(<< <<" ">> >>)
    ELSE IF key = "location"
    THEN [location |-> StringValue(<<" ">>), city |-> StringValue(<<"K">>),
          region |-> StringValue(<<"A", "s">>)]
    ELSE key :> StringValue(<<" ", " ">>)

GoodPart(key, good) ==
    IF good = "plain"
    THEN key :> StringValue(CASE key = "title" -> <<"T">>
                              [] key = "category" -> <<"P", "l">>
                              [] key = "description" -> <<"d">>
                              [] key = "location" -> <<"A", "c">>
                              [] key = "dueDate" -> DateText
                              [] key = "phone" -> <<"0", "2">>)
    ELSE CASE key = "title" -> key :> StringValue(<<" ", "T", " ">>)
           [] key = "category" -> key :> ArrayValue(<< <<"P", "l">>, <<"R">> >>)
           [] key = "description" -> key :> StringValue(<<"d", " ">>)
           [] key = "location" -> [city |-> StringValue(<<"K">>),
                                   region |-> StringValue(<<"A", "s">>)]
           [] key = "dueDate" -> key :> StringValue(DateText)
           [] key = "phone" -> key :> StringValue(<<" ", "0", "2">>)

TaskBody(left, bad, good) ==
    LET part(key) == IF key \in left THEN BadPart(key, bad) ELSE GoodPart(key, good)
    IN  part("title") @@ part("category") @@ part("description")
        @@ part("location") @@ part("dueDate") @@ part("phone")

TaskBodies ==
    { TaskBody(left, bad, good) :
        left \in SUBSET {RequiredKeys[i] : i \in DOMAIN RequiredKeys},
        bad \in BadKinds, good \in GoodKinds }
    \cup { [city |-> StringValue(<<"K">>)] @@ TaskBody({"location"}, "absent", "plain"),
           [dueDate |-> StringValue(<<"x">>)] @@ TaskBody({}, "absent", "plain"),
           [title |-> ArrayValue(<< <<"T">>, <<"U">> >>)] @@ TaskBody({}, "absent", "rich") }

\* one complete body, for the specifications that are about stored tasks
CompleteTaskBodies ==
    { [title |-> StringValue(<<"T">>), category |-> ArrayValue(<< <<"P", "l">> >>),
       mainCategory |-> StringValue(<<"H">>),
       description |-> StringValue(<<"d">>), location |-> StringValue(<<"A", "c">>),
       dueDate |-> StringValue(DateText), phone |-> StringValue(<<"0", "2">>)] }

TaskEditBodies ==
    { [title |-> StringValue(<<"U">>)],
      [title |-> StringValue(<<" ">>), existingImages |-> JsonField(<<1>>)],
      [existingImages |-> TextField("oops")],
      [city |-> StringValue(<<"K">>), region |-> StringValue(<<"A", "s">>),
       existingImages |-> JsonField(<<1>>)] }

TaskIds == 1..MaxTasks
\* the users who post tasks
TaskOwners == {"ama"}
TaskUploads == {0, 1}

\* creation of tasks from every request body
NextTaskCreate ==
    \E body \in TaskBodies : CreateTask("ama", body, 0)

\* the life of a stored task, with concurrent status requests
NextTasks ==
    \/ \E u \in TaskOwners, body \in CompleteTaskBodies, k \in TaskUploads :
           CreateTask(u, body, k)
    \/ \E u \in Users, tid \in TaskIds, body \in TaskEditBodies, k \in TaskUploads :
           UpdateTask(u, tid, body, k)
    \/ \E u \in Users, tid \in TaskIds : DeleteTask(u, tid)
    \/ \E c \in StatusCallers, u \in Users, tid \in TaskIds, status \in Statuses :
           StatusFind(c, u, tid, status)
    \/ \E c \in StatusCallers : StatusSave(c)

\* requests of the owner and of another user for the same tasks, the status
\* requests one at a time
OwnerEditBodies == {[title |-> StringValue(<<"U">>)]}

NextTaskOwner ==
    \/ \E u \in TaskOwners, body \in CompleteTaskBodies : CreateTask(u, body, 1)
    \/ \E u \in Users, tid \in TaskIds, body \in OwnerEditBodies, k \in TaskUploads :
           UpdateTask(u, tid, body, k)
    \/ \E u \in Users, tid \in TaskIds : DeleteTask(u, tid)
    \/ \E u \in Users, tid \in TaskIds, status \in Statuses :
           StatusFind(1, u, tid, status)
    \/ StatusSave(1)

\* req.query of GET /tasks; limit and page after parseInt
TaskQuery(region, status, mainCategory, category, city, limit, page) ==
    [region |-> region, status |-> status, mainCategory |-> mainCategory,
     category |-> category, city |-> city, limit |-> limit, page |-> page]

\* providers and tasks of two regions, and the listings that read them
DirectoryRegBodies ==
    { [fname |-> "Ama", sname |-> "Mensah", bio |-> BioA, region |-> "Ashanti",
       category |-> JsonField(<<"Water Vendor (Private Supply)">>)],
      [fname |-> "Ama", sname |-> "Mensah", bio |-> BioA, region |-> "Ashanti",
       category |-> JsonField(<<"Sign Writing", "Kiosk Repairs">>)],
      [fname |-> "Ama", sname |-> "Mensah", bio |-> BioA, region |-> "Volta",
       category |-> JsonField(<<"kiosk repairs">>)] }

DirectoryTaskBodies ==
    { [city |-> StringValue(<<"K">>), region |-> StringValue(chars)] @@ body :
        body \in CompleteTaskBodies,
        chars \in {<<"A", "s", "h", "a", "n", "t", "i">>, <<"V", "o", "l", "t", "a">>} }

RegionQueries == {"Ashanti", "ashanti region", "ASHANTI Region", "Volta"}
CategoryQueries == {"Informal & On-Demand Services", "Sign Writing", "kiosk repairs"}

NextDirectory ==
    \/ \E u \in Registrants, body \in DirectoryRegBodies : Register(u, body, 0)
    \/ \E pid \in ProviderIds, dbFail \in BOOLEAN : ToggleApproved(pid, dbFail)
    \/ \E u \in TaskOwners, body \in DirectoryTaskBodies : CreateTask(u, body, 0)
    \/ \E region \in RegionQueries \cup {""}, status \in {"", "completed"} :
           ListTasks(TaskQuery(region, status, <<>>, <<>>, <<>>, 100, 1))
    \/ \E regionName \in RegionQueries, dbFail \in BOOLEAN :
           RegionStats(regionName, dbFail)
    \/ \E dbFail \in BOOLEAN : JobsByRegion(dbFail)
    \/ \E region \in RegionQueries, category \in CategoryQueries :
           RegionCategory(region, category)
    \/ \E regionName \in RegionQueries : CategoryCounts(regionName)

\* two registrations of one user in flight at once
RaceRegBodies ==
    { [fname |-> "Ama", sname |-> "Mensah", bio |-> BioA, region |-> "Ashanti",
       category |-> JsonField(<<"Plumbing">>)],
      [fname |-> "", sname |-> "Owusu", bio |-> BioA, region |-> "Ashanti",
       category |-> JsonField(<<"Cleaning">>)] }

NextRegistration ==
    \/ \E c \in RegistrationCallers, u \in Users, body \in RaceRegBodies :
          RegisterFind(c, u, body, 0)
    \/ \E c \in RegistrationCallers : RegisterSave(c)

\* user accounts
Emails == {"ama@x.gh", "kofi@x.gh"}
PhoneNumbers == {StringValue(<<"0", "2", "4">>), StringValue(<<"0", "5", "5", " ">>)}
PhoneChoices ==
    {<<>>} \cup {("phone" :> p) : p \in PhoneNumbers}
           \cup {("phone" :> p) @@ ("whatsapp" :> p) : p \in PhoneNumbers}
RegisterUserBodies ==
    {[name |-> "Ama", email |-> e, password |-> pw] :
        e \in Emails, pw \in {"secret1", "abc"}}
    \cup {[name |-> "", email |-> "ama@x.gh", password |-> "secret1"]}
AdminUserBodies ==
    {[name |-> "Kofi", email |-> e, password |-> "secret1"] @@ ph :
        e \in Emails, ph \in PhoneChoices}
AdminUserEdits == PhoneChoices
UserIds == 1..MaxAccounts

NextAccounts ==
    \/ \E body \in RegisterUserBodies : RegisterUser(body)
    \/ \E body \in AdminUserBodies : AdminCreateUser(body)
    \/ \E id \in UserIds, body \in AdminUserEdits : AdminUpdateUser(id, body)

\* tasks with one category and with six, and edits of the category list
SixCategories == [i \in 1..6 |-> <<"c">>]
CategoryTaskBodies ==
    { [category |-> ArrayValue(cats)] @@ body :
        body \in CompleteTaskBodies, cats \in {<< <<"P", "l">> >>, SixCategories} }
CategoryEditBodies ==
    { [title |-> StringValue(<<"U">>)],
      [category |-> StringValue(<<"R">>)],
      [category |-> ArrayValue(<< <<"P">>, <<"R">> >>)],
      [category |-> ArrayValue(<<>>)] }

NextTaskCategory ==
    \/ \E u \in TaskOwners, body \in CategoryTaskBodies, k \in TaskUploads :
           CreateTask(u, body, k)
    \/ \E u \in Users, tid \in TaskIds, body \in CategoryEditBodies :
           UpdateTask(u, tid, body, 0)
    \/ \E u \in Users, tid \in TaskIds : DeleteTask(u, tid)

\* task listings under every combination of filters
ListQueries ==
    { TaskQuery(region, status, <<>>, <<>>, <<>>, 2, 1) :
        region \in {"", "ashanti region", "Volta"}, status \in {"", "completed"} }
    \cup { TaskQuery("", "", mainCategory, <<>>, <<>>, 2, 1) :
              mainCategory \in {<<"H">>, <<"h">>} }
    \cup { TaskQuery("", "", <<>>, category, <<>>, 2, 1) :
              category \in {<<"P", "l">>, <<"P">>} }
    \cup { TaskQuery("", "", <<>>, <<>>, city, 2, 1) : city \in {<<"k">>, <<"z">>} }
    \cup { TaskQuery("", "", <<>>, <<>>, <<>>, 1, page) : page \in {1, 2} }
    \cup { TaskQuery("ashanti region", "completed", <<"H">>, <<"P", "l">>, <<"k">>, 2, 1) }

NextListing ==
    \/ \E u \in TaskOwners, body \in DirectoryTaskBodies : CreateTask(u, body, 0)
    \/ \E u \in TaskOwners, tid \in TaskIds, status \in ValidStatuses :
           StatusFind(1, u, tid, status)
    \/ StatusSave(1)
    \/ \E q \in ListQueries : ListTasks(q)

\* a listing whose two queries are separated by a write
RaceQueries ==
    { TaskQuery("", status, <<>>, <<>>, <<>>, 2, 1) : status \in {"", "completed"} }

NextListRace ==
    \/ \E u \in TaskOwners, body \in CompleteTaskBodies : CreateTask(u, body, 0)
    \/ \E u \in TaskOwners, tid \in TaskIds : DeleteTask(u, tid)
    \/ \E u \in TaskOwners, tid \in TaskIds : StatusFind(1, u, tid, "completed")
    \/ StatusSave(1)
    \/ \E c \in ListCallers, q \in RaceQueries : ListFind(c, q)
    \/ \E c \in ListCallers : ListCount(c)

\* registrations that fail, each with uploaded files
UploadRegBodies ==
    RaceRegBodies \cup
    { [fname |-> "Esi", sname |-> "Owusu", bio |-> BioShort, region |-> "Ashanti",
       category |-> JsonField(<<"Cleaning">>)] }

NextRegisterUpload ==
    \/ \E u \in Users, body \in UploadRegBodies, k \in {3, 4} :
          RegisterFind(1, u, body, k)
    \/ RegisterSave(1)

\* approval of requests that give some of the six fields, on a provider that
\* registered with skills
FrameRegBodies ==
    { [fname |-> "Ama", sname |-> "Mensah", bio |-> BioA, region |-> "Ashanti",
       category |-> JsonField(<<"Plumbing">>),
       skills |-> JsonField(<<"pipe fitting">>)] }

FrameSubmitBodies ==
    { [phone |-> "0240000000"],
      [bio |-> BioB],
      [category |-> JsonField(<<"Carpentry">>)],
      [category |-> JsonField(<<"Carpentry">>), bio |-> BioB] }

NextApproveFrame ==
    \/ \E u \in Registrants, body \in FrameRegBodies : Register(u, body, 0)
    \/ \E u \in Users, body \in FrameSubmitBodies, k \in Uploads :
           Submit(u, body, k)
    \/ \E rid \in RequestIds, f \in DbFailures : Approve(rid, f)

\* the provider's own edits next to the review workflow and the admin's edit
NextSelfEdit ==
    \/ \E u \in Registrants, body \in GalleryRegBodies : Register(u, body, 0)
    \/ \E u \in Users, body \in UpdateBodies, k \in {0, MaxSampleWork} :
           UpdateSelf(u, body, k)
    \/ \E u \in Users, body \in UpdateBodies : UpdateProvider(u, body, 0)
    \/ \E pid \in ProviderIds, body \in UpdateBodies : AdminUpdate(pid, body, 0)
    \/ \E u \in Users, body \in GallerySubmitBodies : Submit(u, body, 0)
    \/ \E rid \in RequestIds : Approve(rid, "none")

Next ==
    \/ NextModeration \/ NextReview \/ NextEdit
    \/ NextTaskCreate \/ NextTasks \/ NextTaskOwner \/ NextDirectory
    \/ NextRegistration \/ NextAccounts
    \/ NextTaskCategory \/ NextListing \/ NextListRace
    \/ NextRegisterUpload \/ NextApproveFrame \/ NextSelfEdit

Spec == Init /\ [][Next]_vars
SpecModeration == Init /\ [][NextModeration]_vars
SpecGallery == Init /\ [][NextGallery]_vars
SpecReview == Init /\ [][NextReview]_vars
SpecTaskCreate == Init /\ [][NextTaskCreate]_vars
SpecTasks == Init /\ [][NextTasks]_vars
SpecTaskOwner == Init /\ [][NextTaskOwner]_vars
SpecDirectory == Init /\ [][NextDirectory]_vars
SpecRegistration == Init /\ [][NextRegistration]_vars
SpecAccounts == Init /\ [][NextAccounts]_vars
SpecTaskCategory == Init /\ [][NextTaskCategory]_vars
SpecListing == Init /\ [][NextListing]_vars
SpecListRace == Init /\ [][NextListRace]_vars
SpecRegisterUpload == Init /\ [][NextRegisterUpload]_vars
SpecApproveFrame == Init /\ [][NextApproveFrame]_vars
SpecSelfEdit == Init /\ [][NextSelfEdit]_vars

(***************************************************************************)
(* Properties.                                                             *)
(***************************************************************************)
\* s.slice(-n): the last n entries of s
LastN(s, n) == SubSeq(s, Len(s) - Min(Len(s), n) + 1, Len(s))

\* the step is a call of approve that got as far as provider.save()
ApproveStep == resp'.op = "approve" /\ "stop" \in DOMAIN resp'

\* C1: a request that is approved or rejected is never changed again
\* (status, processedAt, processedBy and rejectionReason stay as they are),
\* and a pending request only moves to approved or rejected.
C1_TerminalOnceProcessed ==
    [][\A rid \in DOMAIN requests :
          /\ requests[rid].status # "pending" => requests'[rid] = requests[rid]
          /\ requests'[rid].status \in {requests[rid].status, "approved", "rejected"}
      ]_vars

\* C2: when approve is called on a request and then called on it again, the
\* second call adds no further copy of any of the request's sample files to
\* the provider's gallery.
C2_SecondApproveAddsNothing ==
    [][(/\ resp.op = "approve" /\ "stop" \in DOMAIN resp
        /\ ProviderWritten(resp.stop)
        /\ ApproveStep /\ resp'.rid = resp.rid
        /\ requests[resp.rid].providerId \in DOMAIN providers)
       => LET r == requests[resp.rid]
          IN  \A i \in DOMAIN r.newSampleFiles :
                  Count(providers'[r.providerId].sampleWork, r.newSampleFiles[i])
                  <= Count(providers[r.providerId].sampleWork, r.newSampleFiles[i])
      ]_vars

\* C3: every stored provider has at most 10 sample-work entries.
C3_GalleryAtMostTen ==
    \A pid \in DOMAIN providers : Len(providers[pid].sampleWork) <= 10

\* C3 witness: the gallery is full and an update that would have stored
\* more entries was refused.
C3_Witness ==
    /\ resp.op = "updateProvider" /\ resp.status = 500
    /\ \E pid \in DOMAIN providers : Len(providers[pid].sampleWork) = 10

\* C4: an approve or a self-update that appends sample files stores the last
\* 10 entries of the old gallery followed by the new files.
C4_OldestDroppedFirst ==
    [][/\ (ApproveStep /\ ProviderWritten(resp'.stop))
          => LET r == requests[resp'.rid]
             IN  Len(r.newSampleFiles) > 0 =>
                   providers'[r.providerId].sampleWork =
                     LastN(providers[r.providerId].sampleWork \o r.newSampleFiles, 10)
       /\ (resp'.op = "update" /\ resp'.status = 200)
          => \A pid \in DOMAIN providers :
                 providers'[pid].sampleWork =
                   LastN(providers[pid].sampleWork
                           \o NewFiles(nextFile, nextFile' - nextFile), 10)
      ]_vars

\* C5: an approve call that fails at any step answers 500 and leaves the
\* stored request as it was.
C5_FailedApproveKeepsRequest ==
    [][(ApproveStep /\ resp'.stop # "done")
       => (resp'.status = 500 /\ requests' = requests)]_vars

\* C5 witness: request.save() failed after the provider was saved, and the
\* request is still pending.
C5_Witness ==
    /\ resp.op = "approve" /\ resp.status = 500
    /\ "stop" \in DOMAIN resp /\ resp.stop = "requestSave"
    /\ requests[resp.rid].status = "pending"
    /\ "processedAt" \notin DOMAIN requests[resp.rid]

\* C6: an approve call never stores a changed provider while leaving the
\* request pending.
C6_NoPartialWrite ==
    [][(ApproveStep /\ providers' # providers)
       => requests'[resp'.rid].status = "approved"]_vars

CarriesValue(body, f) ==
    /\ f \in DOMAIN body
    /\ IF f \in {"category", "skills"}
       THEN body[f].kind = "json" \/ body[f].text # ""
       ELSE body[f] # ""

CarriesNothing(body, files) ==
    /\ files = 0
    /\ \A f \in {"category", "bio", "skills", "experience", "hourlyRate",
                 "availability"} : ~CarriesValue(body, f)

C10_OneReviewPerUser ==
    \A pid \in DOMAIN providers :
        \A i, j \in DOMAIN providers[pid].reviews :
            i # j => providers[pid].reviews[i].userId # providers[pid].reviews[j].userId

\* C11: a review request read while the user already has a review stored on
\* the provider never goes on to the save: it is answered "You already
\* reviewed this provider" and leaves every provider document as it was.
C11_SecondReviewRefused ==
    [][/\ \A c \in Reviewers :
            (inflight'[c] # inflight[c] /\ inflight'[c] # NoDoc)
            => ~\E i \in DOMAIN providers[inflight'[c].pid].reviews :
                   providers[inflight'[c].pid].reviews[i].userId = inflight'[c].uid
       /\ (/\ inflight' = inflight
           /\ resp'.op = "review"
           /\ resp'.pid \in DOMAIN providers
           /\ \E i \in DOMAIN providers[resp'.pid].reviews :
                  providers[resp'.pid].reviews[i].userId = resp'.uid)
          => /\ resp'.success = FALSE
             /\ resp'.message = "You already reviewed this provider"
             /\ providers' = providers
      ]_vars

\* C11 witness: the refusal was sent to a user whose one review is stored.
C11_Witness ==
    /\ resp.op = "review"
    /\ resp.message = "You already reviewed this provider"
    /\ resp.pid \in DOMAIN providers
    /\ \E i \in DOMAIN providers[resp.pid].reviews :
           /\ providers[resp.pid].reviews[i].userId = resp.uid
           /\ providers[resp.pid].averageRating =
                  10 * providers[resp.pid].reviews[i].rating

\* C12: every stored provider's averageRating is the mean of the ratings in
\* its review list rounded to one decimal, and 0 for an empty list.
C12_AverageIsMean ==
    \A pid \in DOMAIN providers :
        providers[pid].averageRating = CalculateRating(providers[pid].reviews)

\* the fields of a POST /tasks body that are absent or blank: a string of
\* spaces only, or an array with no text; the location is the one given or,
\* without one, the one made of city and region
BlankText(chars) == \A i \in DOMAIN chars : chars[i] = " "
Blank(v) ==
    IF v.kind = "array" THEN \A i \in DOMAIN v.items : BlankText(v.items[i])
    ELSE BlankText(v.chars)
GivenLocation(body) ==
    IF "location" \in DOMAIN body /\ body.location.chars # <<>> THEN {body.location}
    ELSE IF {"city", "region"} \subseteq DOMAIN body
            /\ body.city.chars # <<>> /\ body.region.chars # <<>>
    THEN {StringValue(body.city.chars \o <<",", " ">> \o body.region.chars)}
    ELSE {}
AbsentOrBlank(body) ==
    {key \in {"title", "category", "description", "dueDate", "phone"} :
        key \notin DOMAIN body \/ Blank(body[key])}
    \cup {key \in {"location"} : \A v \in GivenLocation(body) : Blank(v)}

C14_CompletedAtIffCompleted ==
    \A tid \in DOMAIN tasks :
        (tasks[tid].completedAt # 0) <=> (tasks[tid].status = "completed")

\* the step answers a PUT /:id, DELETE /:id or PUT /:id/status that a user
\* other than the owner sent for a stored task
NonOwnerAnswer ==
    /\ resp'.op \in {"updateTask", "deleteTask", "status"}
    /\ resp'.tid \in DOMAIN tasks
    /\ tasks[resp'.tid].clientId # resp'.uid

\* the step leaves every stored task, and the stored images of the task the
\* request names, as they were
TaskUntouched ==
    /\ tasks' = tasks
    /\ \A img \in FileSet(tasks[resp'.tid].images) : img \in disk => img \in disk'

\* no step changes the owner of a task
OwnerKept ==
    \A tid \in DOMAIN tasks \cap DOMAIN tasks' :
        tasks'[tid].clientId = tasks[tid].clientId

\* C15: a task request by a user who is not the owner is answered 403 and
\* leaves the task, its images and its existence unchanged, and the owner of
\* a task never changes.
C15_OnlyOwnerMutates ==
    [][/\ NonOwnerAnswer => (resp'.status = 403 /\ TaskUntouched)
       /\ OwnerKept
      ]_vars

\* C15 amended: as C15, except that a status request whose status is neither
\* open nor completed is answered 400, whoever sends it.
C15_OnlyOwnerMutatesAmended ==
    [][/\ NonOwnerAnswer
          => /\ IF resp'.op = "status" /\ resp'.requested \notin {"open", "completed"}
                THEN resp'.status = 400
                ELSE resp'.status = 403
             /\ TaskUntouched
       /\ OwnerKept
      ]_vars

\* C15 witness: a user who is not the owner was refused the edit of a task
\* that has an image on disk.
C15_Witness ==
    /\ resp.op = "updateTask" /\ resp.status = 403
    /\ resp.tid \in DOMAIN tasks
    /\ tasks[resp.tid].clientId # resp.uid
    /\ tasks[resp.tid].images # <<>>
    /\ FileSet(tasks[resp.tid].images) \subseteq disk

\* the ways of writing the region Ashanti
RegionVariants == {"Ashanti", "ashanti region", "ASHANTI", "Ashanti Region"}

\* C16: in every state of the database each way of writing a region, in any
\* letter case and with or without a trailing " Region", gets the same
\* task listing, the same region statistics and the same provider listing.
C16_RegionVariantsAgree ==
    \A q \in RegionVariants :
        /\ TaskFilter(q, "") = TaskFilter("Ashanti", "")
        /\ RegionStatsGroups(q) = RegionStatsGroups("Ashanti")
        /\ RegionTotalJobs(q) = RegionTotalJobs("Ashanti")
        /\ \A category \in CategoryQueries :
               RegionCategoryQuery(q, category) = RegionCategoryQuery("Ashanti", category)

\* C17: a region-category listing for a main category returns exactly the
\* providers of the region that list, in any letter case, one of the
\* sub-categories of that main category.
C17_MainCategoryUnion ==
    [][(resp'.op = "regionCategory"
        /\ resp'.category \in DOMAIN MainCategoryToSubCategories)
       => resp'.providers =
            {pid \in DOMAIN providers :
                /\ EqualIgnoringCase(providers[pid].region, resp'.region)
                /\ \E i \in DOMAIN providers[pid].category,
                      j \in DOMAIN MainCategoryToSubCategories[resp'.category] :
                      EqualIgnoringCase(providers[pid].category[i],
                                        MainCategoryToSubCategories[resp'.category][j])}
      ]_vars

\* C18: the category counts of a region count the approved providers of the
\* region only: each category's count is the number of approved providers
\* listing it, the total is the number of approved providers, the rows are
\* in descending order of count and carry at most 3 sample providers.
C18_OnlyApprovedCounted ==
    [][resp'.op = "categoryCounts"
       => LET approved == {pid \in DOMAIN providers :
                              /\ providers[pid].isApproved
                              /\ EqualIgnoringCase(providers[pid].region, resp'.region)}
              lists(pid, cat) == \E i \in DOMAIN providers[pid].category :
                                    providers[pid].category[i] = cat
              stats == resp'.categoryStats
          IN  /\ resp'.totalProviders = Cardinality(approved)
              /\ \A i \in DOMAIN stats :
                     /\ stats[i].providerCount =
                          Cardinality({pid \in approved : lists(pid, stats[i].category)})
                     /\ stats[i].sampleProviders <= 3
              /\ \A pid \in approved : \A k \in DOMAIN providers[pid].category :
                     \E i \in DOMAIN stats :
                         stats[i].category = providers[pid].category[k]
              /\ \A i, j \in DOMAIN stats :
                     i < j => stats[i].providerCount >= stats[j].providerCount
      ]_vars


\* at most one Provider document per user
OneProviderPerUser == \A u \in Users : Cardinality(ProviderOf(u)) <= 1

\* C19: at most one Provider document exists per userId in every reachable
\* state, concurrent registrations of one user included; a registration
\* request of a user who already has a provider is answered 400 and creates
\* nothing.
C19_OneProviderPerUser ==
    [][/\ OneProviderPerUser'
       /\ \A c \in RegistrationCallers, u \in Users, body \in RaceRegBodies :
            (RegisterFind(c, u, body, 0) /\ ProviderOf(u) # {})
            => /\ resp' = RegisterResp(400, u, AlreadyRegisteredMessage, <<>>)
               /\ providers' = providers
               /\ registrations' = registrations
      ]_vars

\* two registrations of one user passed the findOne check together: the
\* first save created the provider and the second save was refused
C19_Witness ==
    /\ resp.op = "register"
    /\ resp.status = 500
    /\ resp.message = DuplicateKeyMessage
    /\ Cardinality(ProviderOf(resp.uid)) = 1

\* a phone or WhatsApp number that is present: a string
Present(v) == v.kind = "string"

SparselyUnique(path) ==
    \A a \in DOMAIN users, b \in DOMAIN users :
        (a # b /\ Present(users[a][path])) => users[a][path] # users[b][path]

\* a request that creates a user and gives no phone and no WhatsApp number
CreatesWithoutPhone(r) ==
    /\ r.op \in {"registerUser", "adminCreateUser"}
    /\ r.body.name # "" /\ r.body.email # ""
    /\ Len(r.body.password) >= MinPasswordLength
    /\ r.op = "adminCreateUser" => DOMAIN r.body \cap {"phone", "whatsapp"} = {}

\* C20: no two users share a present phone (or WhatsApp) value, and a user
\* without a phone number can always be created, whatever users without a
\* phone number exist already: the creation succeeds.
C20_SparselyUnique ==
    [][/\ SparselyUnique("phone")' /\ SparselyUnique("whatsapp")'
       /\ (/\ resp' # resp
           /\ CreatesWithoutPhone(resp')
           /\ UserByEmail(resp'.body.email) = {})
          => /\ resp'.status = 201
             /\ DOMAIN users' # DOMAIN users
      ]_vars


\* C21: every persisted Task has a category list of between 1 and 5 entries,
\* after any sequence of task creations and task updates.
C21_TaskCategoryOneToFive ==
    \A tid \in DOMAIN tasks :
        /\ Len(tasks[tid].category) >= 1
        /\ Len(tasks[tid].category) <= MaxTaskCategories


\* a region name without a trailing " region", in any letter case
WithoutRegionSuffix(name) ==
    IF Len(name) >= 7
       /\ EqualIgnoringCase(SubSeq(name, Len(name) - 6, Len(name)), " region")
    THEN SubSeq(name, 1, Len(name) - 7)
    ELSE name

\* text contains part, letter case ignored
ContainsIgnoringCase(text, part) ==
    \E i \in 1..(Len(text) + 1), j \in 0..Len(text) :
        EqualIgnoringCase(SubSeq(text, i, j), part)

\* the task satisfies every filter the query supplies
Satisfies(t, q) ==
    /\ t.status = (IF q.status = "" THEN "open" ELSE q.status)
    /\ q.region # "" => EqualIgnoringCase(t.region, WithoutRegionSuffix(q.region))
    /\ q.mainCategory # <<>> => t.mainCategory = q.mainCategory
    /\ q.category # <<>> => q.category \in Range(t.category)
    /\ q.city # <<>> => ContainsIgnoringCase(t.city, q.city)

Satisfying(q) == {tid \in DOMAIN tasks : Satisfies(tasks[tid], q)}

C25_CountApartFromPage ==
    [][\A c \in ListCallers :
          (listCalls[c] # NoDoc /\ listCalls'[c] = NoDoc)
          => /\ resp'.total = Cardinality(Satisfying(listCalls[c].query))
             /\ resp'.tasks = listCalls[c].tasks
             /\ listCalls[c].readFrom = tasks => resp'.total = listCalls[c].matched
      ]_vars

\* a response whose total is not the number of tasks that matched where the
\* page was read
C25_Witness ==
    /\ resp.op = "listTasks"
    /\ "matched" \in DOMAIN resp
    /\ resp.total # resp.matched


\* C23: a handler in which an exception is raised answers with an HTTP error
\* status and the JSON body {success: false, message}; the exception does not
\* escape and the failure is not reported as success.
C23_ExceptionsBecomeEnvelopes ==
    [][("threw" \in DOMAIN resp' /\ resp' # resp)
       => /\ resp'.status >= 400
          /\ resp'.json
          /\ resp'.success = FALSE
          /\ resp'.keys = {"success", "message"}
      ]_vars


\* C24: when the removal of a sample-work file fails, the request that
\* removes the sample still succeeds and the provider is stored without the
\* entry.
C24_FileDeletionBestEffort ==
    [][(/\ resp'.op = "deleteSample"
        /\ "failed" \in DOMAIN resp'
        /\ resp'.failed = "unlink"
        /\ resp' # resp)
       => /\ resp'.status = 200
          /\ providers' # providers
      ]_vars

\* C28: in every state each path in a stored provider's sampleWork names a
\* file the application has not deleted.
C28_ReferencedFilesKept ==
    \A pid \in DOMAIN providers :
        \A i \in DOMAIN providers[pid].sampleWork :
            providers[pid].sampleWork[i] \notin unlinked


\* C26: when a provider registration fails, every file uploaded with the
\* request has been deleted from disk.
C26_FailedRegistrationCleansUp ==
    [][(/\ resp'.op = "register"
        /\ "files" \in DOMAIN resp'
        /\ resp' # resp
        /\ resp'.status # 201)
       => Range(resp'.files) \subseteq unlinked'
      ]_vars


\* the fields of a stored change-set that carry a value: a list path the
\* submitter did not give is stored as an empty list
GivenFields(r) ==
    {f \in DOMAIN r.changes : f \in ListFields => Len(r.changes[f]) > 0}

\* C27: an approve call leaves every field of the provider that the request
\* does not give as it was: the fields outside the change-set, and the
\* gallery when the request brings no new sample files.
C27_ApproveFrame ==
    [][ApproveStep
       => LET r == requests[resp'.rid]
              written == GivenFields(r) \cup
                         (IF Len(r.newSampleFiles) > 0 THEN {"sampleWork"} ELSE {})
          IN  \A f \in DOMAIN providers[r.providerId] \ written :
                  providers'[r.providerId][f] = providers[r.providerId][f]
      ]_vars


\* the profile fields whose edits go through review
StagedFields ==
    {"category", "bio", "skills", "experience", "hourlyRate", "availability"}

\* C29: after registration a provider's category, bio, skills, experience,
\* hourlyRate and availability change, and its gallery grows, only in a step
\* of an admin call: the approval of an update request or the admin update.
C29_EditsStagedForReview ==
    [][\A pid \in DOMAIN providers :
          (\/ \E f \in StagedFields : providers'[pid][f] # providers[pid][f]
           \/ Len(providers'[pid].sampleWork) > Len(providers[pid].sampleWork))
          => resp'.op \in {"approve", "adminUpdate"}
      ]_vars


\* C30: an update request comes into being only through a submit call, in
\* status pending and for the provider whose userId is the submitting user;
\* a submit call by a user who owns no provider is answered 404 and creates
\* no request.
C30_RequestForOwnProvider ==
    [][/\ Len(requests') > Len(requests)
          => LET q == requests'[Len(requests')]
             IN  /\ Len(requests') = Len(requests) + 1
                 /\ resp'.op = "submit" /\ resp'.status = 200
                 /\ q.status = "pending"
                 /\ q.userId = resp'.uid
                 /\ q.providerId \in DOMAIN providers
                 /\ providers[q.providerId].userId = q.userId
       /\ (/\ resp'.op = "submit"
           /\ \A id \in DOMAIN providers : providers[id].userId # resp'.uid)
          => resp'.status = 404 /\ requests' = requests
      ]_vars

\* C30 witness: a provider's user has submitted a request, stored pending
\* under that provider.
C30_Witness ==
    /\ resp.op = "submit" /\ resp.status = 200
    /\ Len(requests) > 0
    /\ requests[Len(requests)].status = "pending"
    /\ requests[Len(requests)].userId = resp.uid
    /\ providers[requests[Len(requests)].providerId].userId = resp.uid

====
